---- MODULE Spec2Model ----
(***************************************************************************)
(* A model of the magic_tagger knowledge-graph and provenance subsystem:   *)
(* the identity minters (rdf/kg_helpers.py, rdf/build_kg.py,               *)
(* rdf/export_atu_types.py), the classification service and its export     *)
(* (src/service.py, src/scoring.py, src/model_store.py,                    *)
(* src/export_jsonld.py), the classify page of the dashboard (app/app.py)  *)
(* and the corpus graph builder (rdf/build_kg.py).                         *)
(*                                                                         *)
(* Text values whose characters matter (classification codes) are          *)
(* sequences of one-character strings; the names "cyr_a" and "cyr_A"       *)
(* stand for the Cyrillic letters U+0430 and U+0410.  None is the          *)
(* one-element sequence NULL.  Scores are integers in hundredths (0.62 is  *)
(* 62).                                                                    *)
(***************************************************************************)
EXTENDS Integers, Sequences, FiniteSets, TLC

VARIABLES
    mRaw,       \* minter: the raw code handed to the constructors (NULL = None)
    mAlt,       \* minter: a second spelling of mRaw that differs only in letter case
    mPolicy,    \* minter: star_policy
    mRes,       \* minter: what each constructor returned, per component
    ePc,        \* export: "idle", "raw", "result" or "graph"
    eVia,       \* export: "classify" when the raw output came from classify
    eTale,      \* export: the tale id of the request
    eText,      \* export: the text of the request
    eRaw,       \* export: the raw classification output
    eResult,    \* export: what build_export_result returned
    eGraph,     \* export: the @graph to_jsonld returned
    ePrev,      \* export: tale, text hash, start and snapshot id of the export before
    eNow,       \* export: the clock, in seconds
    aResult,    \* page: session_state["last_export_result"], <<>> or <<result>>
    aExpert,    \* page: session_state["expert_decision"], <<>> is {}
    aMode,      \* page: the value of the "Decision mode" radio
    aRadioDefault,  \* page: the default the radio was last drawn with
    aModelPrimary,  \* page: the primary code of the most recent classify call
    aHanded,    \* page: <<>> or what the last run handed to and got from to_jsonld
    aNow,       \* page: the clock, in seconds
    kPc,        \* corpus graph: "idle", "loaded", "built", "written" or "failed"
    kTable,     \* corpus graph: the data frame, [columns, rows]
    kOut,       \* corpus graph: what build_graph returned or what the run raised
    kFile,      \* corpus graph: how often the output file was written (0: no file)
    fIn,        \* function calls: the arguments drawn for the call
    fOut        \* function calls: <<>> or what the call returned

mintVars == <<mRaw, mAlt, mPolicy, mRes>>
exportVars == <<ePc, eVia, eTale, eText, eRaw, eResult, eGraph, ePrev, eNow>>
appVars == <<aResult, aExpert, aMode, aRadioDefault, aModelPrimary, aHanded, aNow>>
kgVars == <<kPc, kTable, kOut, kFile>>
funVars == <<fIn, fOut>>
vars == <<mintVars, exportVars, appVars, kgVars, funVars>>
exceptMint == <<exportVars, appVars, kgVars, funVars>>
exceptExport == <<mintVars, appVars, kgVars, funVars>>
exceptApp == <<mintVars, exportVars, kgVars, funVars>>
exceptKg == <<mintVars, exportVars, appVars, funVars>>
exceptFun == <<mintVars, exportVars, appVars, kgVars>>

\* the export pipeline before any request
ExportIdle ==
    /\ ePc = "idle"
    /\ eVia = ""
    /\ eTale = <<>>
    /\ eText = ""
    /\ eRaw = <<>>
    /\ eResult = <<>>
    /\ eGraph = <<>>
    /\ ePrev = <<>>
    /\ eNow = 0

\* no function call drawn
FunIdle ==
    /\ fIn = <<>>
    /\ fOut = <<>>

\* the corpus graph builder before a table is read
KgIdle ==
    /\ kPc = "idle"
    /\ kTable = <<>>
    /\ kOut = <<>>
    /\ kFile = 0

\* the classify page before the first Submit
AppIdle ==
    /\ aResult = <<>>
    /\ aExpert = <<>>
    /\ aMode = "Use model suggestion"
    /\ aRadioDefault = "Use model suggestion"
    /\ aModelPrimary = <<"<None>">>
    /\ aHanded = <<>>
    /\ aNow = 0

NULL == <<"<None>">>

\* ------------------------------------------------------------------ bounds
MaxCodeLen == 3
MaxPreds == 2
MaxSuggestions == 3
MaxClock == 2
MaxRows == 2
MaxWrites == 2

\* ------------------------------------------------------------------ text
CodeChars == {"1", "a", "A", "*", " ", "cyr_a"}

RECURSIVE SeqsUpTo(_, _)
SeqsUpTo(S, n) ==
    IF n = 0 THEN {<<>>}
    ELSE LET shorter == SeqsUpTo(S, n - 1)
         IN  shorter \cup {Append(s, c) : s \in {t \in shorter : Len(t) = n - 1}, c \in S}

RECURSIVE Flatten(_)
Flatten(ss) == IF ss = <<>> THEN <<>> ELSE Head(ss) \o Flatten(Tail(ss))

IsWs(c) == c = " "

\* str.strip()
RECURSIVE LStrip(_)
LStrip(s) == IF s # <<>> /\ IsWs(Head(s)) THEN LStrip(Tail(s)) ELSE s

RECURSIVE RStrip(_)
RStrip(s) == IF s # <<>> /\ IsWs(s[Len(s)]) THEN RStrip(SubSeq(s, 1, Len(s) - 1)) ELSE s

Strip(s) == RStrip(LStrip(s))

\* re.sub(r"\s+", " ", s): every run of whitespace becomes one space
RECURSIVE CollapseWs(_)
CollapseWs(s) ==
    IF s = <<>> THEN <<>>
    ELSE IF IsWs(Head(s))
         THEN <<" ">> \o CollapseWs(LStrip(s))
         ELSE <<Head(s)>> \o CollapseWs(Tail(s))

\* re.sub(r"\s+", "", s) and str.replace(" ", "")
RemoveWs(s) == SelectSeq(s, LAMBDA c : ~IsWs(c))

UpperChar(c) ==
    CASE c = "a" -> "A"
      [] c = "s" -> "S"
      [] c = "t" -> "T"
      [] c = "r" -> "R"
      [] c = "n" -> "N"
      [] c = "o" -> "O"
      [] c = "e" -> "E"
      [] c = "cyr_a" -> "cyr_A"
      [] OTHER -> c

LowerChar(c) ==
    CASE c = "A" -> "a"
      [] c = "S" -> "s"
      [] c = "T" -> "t"
      [] c = "R" -> "r"
      [] c = "N" -> "n"
      [] c = "O" -> "o"
      [] c = "E" -> "e"
      [] c = "cyr_A" -> "cyr_a"
      [] OTHER -> c

Upper(s) == [i \in 1..Len(s) |-> UpperChar(s[i])]
Lower(s) == [i \in 1..Len(s) |-> LowerChar(s[i])]

\* str.replace("*", sub)
ReplaceStar(s, sub) == Flatten([i \in 1..Len(s) |-> IF s[i] = "*" THEN sub ELSE <<s[i]>>])

StarWord == <<"-", "s", "t", "a", "r">>
StarPercent == <<"%", "2", "A">>

\* str.rstrip("*")
RECURSIVE RStripStar(_)
RStripStar(s) ==
    IF s # <<>> /\ s[Len(s)] = "*" THEN RStripStar(SubSeq(s, 1, Len(s) - 1)) ELSE s

\* str(x)
PyStr(x) == IF x = NULL THEN <<"N", "o", "n", "e">> ELSE x

Digits == {"0", "1", "2", "3", "4", "5", "6", "7", "8", "9"}
UpperLetters == {"A", "B", "C", "D", "E", "F", "N", "O", "R", "S", "T"}
LowerLetters == {"a", "e", "n", "o", "r", "s", "t"}

\* ------------------------------------------------------------------ minters
\* What a constructor call did: st is "none" (not called), "ok" (returned iri,
\* a sequence of path segments under the base) or "raised" (ValueError).
NoCall == [st |-> "none", iri |-> <<>>]
Raised == [st |-> "raised", iri |-> <<>>]
Returned(iri) == [st |-> "ok", iri |-> iri]

LastSegment(r) == r.iri[Len(r.iri)]

\* rdf/kg_helpers.py -------------------------------------------------------
\* _ensure_str: the stripped text, or NULL when it raises
EnsureStr(x) ==
    IF x = NULL THEN NULL
    ELSE IF Strip(PyStr(x)) = <<>> THEN NULL ELSE Strip(PyStr(x))

\* urllib.parse.quote of one character outside the safe set (UTF-8 bytes)
PercentEncoded(c) ==
    CASE c = "*" -> <<"%", "2", "A">>
      [] c = "%" -> <<"%", "2", "5">>
      [] c = " " -> <<"%", "2", "0">>
      [] c = "cyr_a" -> <<"%", "D", "0", "%", "B", "0">>
      [] c = "cyr_A" -> <<"%", "D", "0", "%", "9", "0">>
      [] OTHER -> <<c>>

SafeChars == UpperLetters \cup LowerLetters \cup Digits \cup {"-", ".", "_", "~"}

EncodePathSegment(s) ==
    Flatten([i \in 1..Len(s) |-> IF s[i] \in SafeChars THEN <<s[i]>> ELSE PercentEncoded(s[i])])

\* _ATU_OK = ^[A-Z0-9-]+$
AtuOk(s) == s # <<>> /\ \A i \in 1..Len(s) : s[i] \in UpperLetters \cup Digits \cup {"-"}

\* _path_join: empty segments are dropped
PathJoin(parts) == SelectSeq(parts, LAMBDA p : p # <<>>)

\* normalize_code: the normalized code, or NULL when it raises
NormalizeCode(code, star_policy) ==
    LET s0 == EnsureStr(code)
        s1 == Upper(RemoveWs(s0))
        hasStar == \E i \in 1..Len(s1) : s1[i] = "*"
        s2 == IF star_policy = "hyphen" THEN ReplaceStar(s1, StarWord) ELSE s1
    IN  IF s0 = NULL THEN NULL
        ELSE IF hasStar /\ star_policy \notin {"hyphen", "percent"} THEN NULL
        ELSE IF AtuOk(s2) THEN s2 ELSE EncodePathSegment(s2)

\* iri_tale, iri_volume, iri_person, iri_place
HelpersIriEntity(kind, raw) ==
    IF EnsureStr(raw) = NULL THEN Raised
    ELSE Returned(PathJoin(<<(<<kind>>), EncodePathSegment(EnsureStr(raw))>>))

\* kg_helpers.iri_atu
HelpersIriAtu(code, star_policy) ==
    IF NormalizeCode(code, star_policy) = NULL THEN Raised
    ELSE Returned(PathJoin(<<(<<"taleType">>), (<<"atu">>), NormalizeCode(code, star_policy)>>))

\* rdf/build_kg.py ----------------------------------------------------------
\* clean_ws
CleanWsText(x) == IF x = NULL THEN <<>> ELSE Strip(CollapseWs(x))

UnknownSegment == <<"U", "N", "K", "N", "O", "W", "N">>

\* build_kg.iri_atu: an f-string, so the segment is used as it is
BuildKgIriAtu(code) ==
    LET c == Upper(RemoveWs(CleanWsText(code)))
    IN  IF c = <<>> THEN Returned(<<(<<"taleType">>), (<<"atu">>), UnknownSegment>>)
        ELSE Returned(<<(<<"taleType">>), (<<"atu">>), ReplaceStar(c, StarWord)>>)

\* rdf/export_atu_types.py --------------------------------------------------
CyrToLat(c) == IF c \in {"cyr_a", "cyr_A"} THEN "A" ELSE c

MissingWords == {<<"<", "n", "a", ">">>, <<"n", "a", "n">>, <<"n", "o", "n", "e">>}

NormCodeForNotation(x) ==
    LET s == CleanWsText(x)
    IN  IF s = <<>> \/ Lower(s) \in MissingWords THEN <<>>
        ELSE Upper(RemoveWs([i \in 1..Len(s) |-> CyrToLat(s[i])]))

NormalizeCodeForIri(code, star_policy) ==
    LET c == NormCodeForNotation(code)
    IN  IF c = <<>> THEN <<>>
        ELSE IF star_policy = "hyphen" THEN ReplaceStar(c, StarWord)
        ELSE ReplaceStar(c, StarPercent)

\* export_atu_types.iri_atu: the segment may be empty
AtuTypesIriAtu(code, star_policy) ==
    Returned(<<(<<"taleType">>), (<<"atu">>), NormalizeCodeForIri(code, star_policy)>>)

\* src/export_jsonld.py -----------------------------------------------------
AtuNorm(code) == RStripStar(Strip(PyStr(code)))

\* _rdf_iri: empty parts are dropped, the others joined as they are
RdfIri(parts) == SelectSeq(parts, LAMBDA p : Strip(p) # <<>>)

\* the concept reference to_jsonld writes for a code (predictedTaleType,
\* primaryATU, modelPrimaryATU, finalATU)
JsonldAtuIri(code) == Returned(RdfIri(<<(<<"taleType">>), (<<"atu">>), AtuNorm(code)>>))

\* ------------------------------------------------------------------ scoring
\* src/config.py: the thresholds, in hundredths
AutoMinScore == 75
AutoMinAnchor == 60
AutoMinDelta == 15
ReviewAMinScore == 50
ReviewAMinAnchor == 40
ReviewBMinScore == 35
ReviewBMinAnchor == 70
CoTypeMaxScoreGap == 10
CoTypeMinScore == 55
CoTypeMinAnchor == 55
MaxCoTypes == 2
DefaultTopK == 3

\* config.clip01, on hundredths
Clip01(x) == IF x < 0 THEN 0 ELSE IF x > 100 THEN 100 ELSE x

\* list.sort(key=score, reverse=True): stable, so equal scores keep their order
RECURSIVE InsertByScore(_, _)
InsertByScore(c, sorted) ==
    IF sorted = <<>> THEN <<c>>
    ELSE IF Head(sorted).score >= c.score
         THEN <<Head(sorted)>> \o InsertByScore(c, Tail(sorted))
         ELSE <<c>> \o sorted

RECURSIVE SortByScoreDesc(_)
SortByScoreDesc(cs) ==
    IF cs = <<>> THEN <<>>
    ELSE InsertByScore(cs[Len(cs)], SortByScoreDesc(SubSeq(cs, 1, Len(cs) - 1)))

\* scoring.normalize_candidates
NormalizeCandidates(cands) ==
    LET kept == SelectSeq(cands, LAMBDA c : Strip(c.atu_code) # <<>>)
    IN  SortByScoreDesc([i \in 1..Len(kept) |->
            [atu_code |-> Strip(kept[i].atu_code),
             score |-> Clip01(kept[i].score),
             anchor |-> Clip01(kept[i].anchor)]])

\* scoring.compute_delta_top12
ComputeDeltaTop12(sorted) ==
    IF Len(sorted) < 2 THEN 0 ELSE Clip01(sorted[1].score - sorted[2].score)

\* the first rule without its min_delta
DecideStatusNoDelta(primary, delta) ==
    IF primary.score >= AutoMinScore /\ primary.anchor >= AutoMinAnchor
    THEN "auto_adopt_primary"
    ELSE IF primary.score >= ReviewAMinScore /\ primary.anchor >= ReviewAMinAnchor
    THEN "needs_review_A"
    ELSE IF primary.score >= ReviewBMinScore /\ primary.anchor >= ReviewBMinAnchor
    THEN "needs_review_B"
    ELSE "weak"

\* scoring.decide_status over config.STATUS_RULES in priority order
DecideStatus(primary, delta) ==
    IF /\ primary.score >= AutoMinScore
       /\ primary.anchor >= AutoMinAnchor
       /\ delta >= AutoMinDelta
    THEN "auto_adopt_primary"
    ELSE IF primary.score >= ReviewAMinScore /\ primary.anchor >= ReviewAMinAnchor
    THEN "needs_review_A"
    ELSE IF primary.score >= ReviewBMinScore /\ primary.anchor >= ReviewBMinAnchor
    THEN "needs_review_B"
    ELSE "weak"

\* scoring.propose_co_types
RECURSIVE CoTypesFrom(_, _, _)
CoTypesFrom(top1, rest, co) ==
    IF rest = <<>> \/ Len(co) >= MaxCoTypes THEN co
    ELSE LET cand == Head(rest)
             take == /\ top1.score - cand.score <= CoTypeMaxScoreGap
                     /\ cand.score >= CoTypeMinScore
                     /\ cand.anchor >= CoTypeMinAnchor
         IN  CoTypesFrom(top1, Tail(rest), IF take THEN Append(co, cand.atu_code) ELSE co)

ProposeCoTypes(sorted) ==
    IF Len(sorted) < 2 THEN <<>> ELSE CoTypesFrom(sorted[1], Tail(sorted), <<>>)

\* scoring.make_decision
MakeDecision(top_candidates) ==
    LET cands == NormalizeCandidates(top_candidates)
        delta == ComputeDeltaTop12(cands)
    IN  IF cands = <<>>
        THEN [tale_status |-> "weak", primary_atu |-> NULL, co_types |-> <<>>,
              delta_top12 |-> delta, candidates |-> <<>>]
        ELSE [tale_status |-> DecideStatus(cands[1], delta),
              primary_atu |-> cands[1].atu_code,
              co_types |-> ProposeCoTypes(cands),
              delta_top12 |-> delta,
              candidates |-> cands]

\* ------------------------------------------------------------------ classification service
\* Optional values: NULL for a text made of characters, NoneAtom for any other
\* text, the empty sequence for an optional number or time (<<x>> when set).
NoneAtom == "<None>"

\* A time is [sec, zone]: the second it names and how its UTC offset is spelt.
\* datetime.now(timezone.utc).replace(microsecond=0).isoformat().replace("+00:00", "Z")
UtcNowIsoZ(now) == [sec |-> now, zone |-> "Z"]

\* hashlib.sha256(...).hexdigest(): the texts of the requests have distinct
\* digests; "collision 1" and "collision 2" stand for two texts with one digest
Sha256Hex(text) ==
    CASE text = "" -> "sha-of-empty"
      [] text = "tale one" -> "sha-of-tale-one"
      [] text = "tale  one" -> "sha-of-tale-one-2sp"
      [] text \in {"collision 1", "collision 2"} -> "sha-of-collision"
      [] OTHER -> "sha-of-other"

\* re.sub(r"\s+", " ", text.strip())
WsNormalText(text) == IF text = "tale  one" THEN "tale one" ELSE text

TextLen(text) ==
    CASE text = "" -> 0
      [] text = "tale one" -> 8
      [] text = "tale  one" -> 9
      [] OTHER -> 400

\* service._source_version
SourceVersion(text) == <<"sha256:", Sha256Hex(WsNormalText(text))>>

\* service._run_id: cls_<created_at>_<six hex digits of sha256(tale|source|created_at)>
RunId(tale_id, src_ver, created_at) ==
    <<"cls", ToString(created_at.sec), created_at.zone>> \o tale_id \o src_ver

\* service._confidence_band
ConfidenceBand(score) ==
    IF score >= 75 THEN "high" ELSE IF score >= 50 THEN "medium" ELSE "low"

StartsWith(s, p) == Len(s) >= Len(p) /\ SubSeq(s, 1, Len(p)) = p

RECURSIVE LStripHyphen(_)
LStripHyphen(s) == IF s # <<>> /\ Head(s) = "-" THEN LStripHyphen(Tail(s)) ELSE s

\* anchors.normalize_atu_code
NormalizeAtuCode(code) ==
    LET c == Strip(PyStr(code))
        u == [i \in 1..Len(c) |-> IF UpperChar(c[i]) = "_" THEN "-" ELSE UpperChar(c[i])]
    IN  IF code = NULL \/ c = <<>> THEN <<>>
        ELSE IF StartsWith(u, <<"A", "T", "U">>) /\ ~StartsWith(u, <<"A", "T", "U", "-">>)
             THEN <<"A", "T", "U", "-">> \o LStripHyphen(SubSeq(u, 4, Len(u)))
             ELSE u

\* service.ATU_LABELS.get(code, "Unknown ATU type")
AtuLabel(code) ==
    IF code = <<"A", "T", "U", "-", "5", "1", "0", "A">> THEN "Cinderella"
    ELSE IF code = <<"A", "T", "U", "-", "4", "8", "0">> THEN "The Kind and the Unkind Girls"
    ELSE "Unknown ATU type"

\* service.MODEL_VERSION: load_artifacts() has no meta, so the fallback is used
ModelVersion == "baseline-unknown+anchors-v0.1.0"

\* service.classify.  preds is what the classifier returned, anchors the
\* anchor score the anchor engine gives each normalized code, now the clock.
\* Of a suggestion, the fields the export reads are kept.
Classify(tale_id, text_ru, top_k, preds, anchors, now) ==
    LET created_at == UtcNowIsoZ(now)
        src_ver == SourceVersion(text_ru)
        warnings == IF WsNormalText(text_ru) = "" THEN <<"NO_TEXT">>
                    ELSE IF TextLen(text_ru) < 400 THEN <<"SHORT_TEXT">> ELSE <<>>
        taken == SubSeq(preds, 1, IF Len(preds) < top_k THEN Len(preds) ELSE top_k)
        candidates == [i \in 1..Len(taken) |->
            [atu_code |-> NormalizeAtuCode(NormalizeAtuCode(taken[i].code)),
             score |-> Clip01(taken[i].score),
             anchor |-> Clip01(anchors[NormalizeAtuCode(NormalizeAtuCode(taken[i].code))])]]
        decision == MakeDecision(candidates)
        shown == SubSeq(decision.candidates, 1,
                        IF Len(decision.candidates) < top_k THEN Len(decision.candidates) ELSE top_k)
    IN  [run |-> [run_id |-> RunId(tale_id, src_ver, created_at),
                  tale_id |-> tale_id,
                  model_version |-> ModelVersion,
                  source_version |-> src_ver,
                  created_at |-> <<created_at>>,
                  status |-> "done",
                  warnings |-> warnings,
                  tale_status |-> decision.tale_status,
                  primary_atu |-> decision.primary_atu,
                  co_types |-> decision.co_types,
                  delta_top12 |-> <<decision.delta_top12>>],
         suggestions |-> [i \in 1..Len(shown) |->
            [is_dict |-> TRUE,
             rank |-> i,
             atu_code |-> shown[i].atu_code,
             label |-> AtuLabel(shown[i].atu_code),
             score |-> <<shown[i].score>>,
             confidence_band |-> ConfidenceBand(shown[i].score)]]]

\* ------------------------------------------------------------------ export result
\* dict.get(key, default)
Get(d, key, default) == IF key \in DOMAIN d THEN d[key] ELSE default

\* An IRI is [base, path]: path is a sequence of segments, each a sequence of
\* strings.  src/uris.py BASE_DATA is the "pages" base, export_jsonld.BASE_DATA
\* the "github" base.
NoIri == [base |-> "", path |-> <<>>]
Seg(atom) == <<atom>>

\* str(x or "").strip().lower() of a band label
BandLower(band) ==
    CASE band = NoneAtom -> ""
      [] band \in {"high", "High", " HIGH "} -> "high"
      [] band \in {"medium", "Medium"} -> "medium"
      [] band \in {"low", "Low"} -> "low"
      [] OTHER -> band

\* the text itself in the place of its digest
Sha256TextVerbatim(text) == text

\* model_store._sha256_text
Sha256Text(text) == Sha256Hex(text)

\* str(t).replace("+00:00", "Z")
ZoneAsZ(t) == [t EXCEPT !.zone = IF @ = "+00:00" THEN "Z" ELSE @]

\* a slug that does not tell one time from another
TsSlugFixed(t) == <<"0", "Z">>

\* the path segment that names a time: "+00:00" -> "Z", ":" -> "-", quoted
TsSlug(t) == <<ToString(t.sec), ZoneAsZ(t).zone>>

\* build_export_result._data_iri
DataIri(parts) == [base |-> "pages", path |-> SelectSeq(parts, LAMBDA q : Strip(q) # <<>>)]

\* the candidates loop of build_export_result: rank counts every entry of
\* suggestions[:k], the entries that are no dict are skipped
RECURSIVE ExportCandidates(_, _, _)
ExportCandidates(suggestions, rank, run_band) ==
    IF suggestions = <<>> THEN <<>>
    ELSE LET sg == Head(suggestions)
             rest == ExportCandidates(Tail(suggestions), rank + 1, run_band)
         IN  IF ~sg.is_dict THEN rest
             ELSE <<[rank |-> rank,
                     atu |-> Strip(PyStr(Get(sg, "atu_code", <<>>))),
                     score |-> Get(sg, "score", <<>>),
                     label |-> Get(sg, "label", "Unknown ATU type"),
                     confidence_band |-> IF rank = 1 THEN run_band ELSE "low"]>> \o rest

\* model_store.build_export_result
BuildExportResult(raw, tale_id, text_ru, k) ==
    LET run == raw.run
        band_raw == BandLower(Get(run, "confidence_band", NoneAtom))
        run_band == IF band_raw = "high" THEN "high" ELSE "low"
        run_id == Strip(Get(run, "run_id", <<>>))
        model_sha == Get(run, "model_sha", NoneAtom)
        model_version == Get(run, "model_version", NoneAtom)
        model_key == IF model_sha # NoneAtom THEN model_sha
                     ELSE IF model_version # NoneAtom THEN model_version
                     ELSE "unknown"
        run_tale == Get(run, "tale_id", <<>>)
        input_text_id == IF Strip(IF run_tale # <<>> THEN run_tale ELSE tale_id) # <<>>
                         THEN Strip(IF run_tale # <<>> THEN run_tale ELSE tale_id)
                         ELSE Strip(tale_id)
        created_at == Get(run, "created_at", <<>>)
        result_uri == IF created_at # <<>>
                      THEN DataIri(<<Seg("result"), input_text_id, TsSlug(created_at[1])>>)
                      ELSE DataIri(<<Seg("result"), IF run_id # <<>> THEN run_id ELSE Seg("run"),
                                     input_text_id>>)
        taken == SubSeq(raw.suggestions, 1,
                        IF Len(raw.suggestions) < k THEN Len(raw.suggestions) ELSE k)
    IN  [id |-> tale_id,
         meta |-> [model_version |-> model_version,
                   model_sha |-> model_sha,
                   run_id |-> run_id,
                   tale_id |-> input_text_id,
                   created_at |-> created_at,
                   status |-> Get(run, "status", "done"),
                   warnings |-> Get(run, "warnings", <<>>),
                   source_version |-> Get(run, "source_version", <<>>),
                   tale_status |-> Get(run, "tale_status", NoneAtom),
                   primary_atu |-> Get(run, "primary_atu", NULL),
                   co_types |-> Get(run, "co_types", <<>>),
                   delta_top12 |-> Get(run, "delta_top12", <<>>),
                   confidence_band |-> run_band,
                   decision_policy |-> "high_else",
                   score1 |-> Get(run, "score1", <<>>),
                   score2 |-> Get(run, "score2", <<>>),
                   confidence_band_raw |-> IF band_raw = "" THEN NoneAtom ELSE band_raw,
                   run_uri |-> IF run_id # <<>> THEN DataIri(<<Seg("run"), run_id>>) ELSE NoIri,
                   model_uri |-> DataIri(<<Seg("model"), Seg(model_key)>>),
                   input_text_uri |-> DataIri(<<Seg("text"), input_text_id>>),
                   result_uri |-> result_uri,
                   text_sha256 |-> Sha256Text(text_ru),
                   typing_source |-> "ffc_284-286_2011_uther"],
         candidates |-> ExportCandidates(taken, 1, run_band)]

\* ------------------------------------------------------------------ JSON-LD export
\* export_jsonld._iri_safe: quote() with the reserved characters kept
IriSafeChars ==
    SafeChars \cup {":", "/", "#", "?", "&", "=", "@", "[", "]", "!", "$", "'", "(", ")",
                    "*", "+", ",", ";", "%"}
IriSafe(s) ==
    Flatten([i \in 1..Len(s) |-> IF s[i] \in IriSafeChars THEN <<s[i]>> ELSE PercentEncoded(s[i])])

\* export_jsonld._rdf_iri under export_jsonld.BASE_DATA
GithubIri(parts) == [base |-> "github", path |-> RdfIri(parts)]

\* export_jsonld._band_title
BandTitle(band) == IF BandLower(band) = "high" THEN "High" ELSE "low"

\* int(meta.get("k") or 3)
JsonldDefaultK == 3

\* the reference to_jsonld writes for an optional code: none when it is falsy
AtuRef(code) ==
    IF code = NULL \/ code = <<>> THEN <<>>
    ELSE <<GithubIri(<<Seg("taleType"), Seg("atu"), AtuNorm(PyStr(code))>>)>>

\* the reproducibility pointers of prov:used: documents outside the graph
PolicyUri == [base |-> "blob", path |-> <<Seg("models"), Seg("meta.json")>>]
LabelsUri == [base |-> "blob", path |-> <<Seg("models"), Seg("labels.json")>>]

\* the list without the bibliographic source
GraphListNoBiblio(core, cands, dataset_snapshot, biblio, hitl, expert_agent) ==
    core \o cands \o dataset_snapshot \o hitl \o expert_agent

\* the @graph list: the six fixed nodes, the candidates, then each optional
\* node that was made
GraphList(core, cands, dataset_snapshot, biblio, hitl, expert_agent) ==
    core \o cands \o dataset_snapshot \o biblio \o hitl \o expert_agent

\* export_jsonld.to_jsonld: the @graph, a sequence of nodes.  A key whose value
\* is None is dropped from its node; here it holds the empty sequence.
ToJsonld(result, tale_id, now) ==
    LET rid == Strip(result.id)
        tid == Strip(IF tale_id # <<>> THEN tale_id
                     ELSE IF rid # <<>> THEN rid ELSE <<"unknown">>)
        meta == result.meta
        k == Get(meta, "k", JsonldDefaultK)
        meta_created == Get(meta, "created_at", <<>>)
        created_at == ZoneAsZ(IF meta_created # <<>> THEN meta_created[1]
                              ELSE [sec |-> now, zone |-> "+00:00"])
        ts == TsSlug(created_at)
        run_id == Strip(Get(meta, "run_id", <<>>))
        meta_sha == Get(meta, "model_sha", NoneAtom)
        meta_version == Get(meta, "model_version", NoneAtom)
        model_version_tag == IF meta_version = NoneAtom THEN "unknown" ELSE meta_version
        model_key == IF meta_sha # NoneAtom THEN meta_sha ELSE model_version_tag
        source_version == Strip(Get(meta, "source_version", <<>>))
        final_decision_source == Get(meta, "final_decision_source", NoneAtom)
        final_saved_at == Get(meta, "final_saved_at", <<>>)
        run_key == IF run_id # <<>> THEN run_id ELSE tid \o <<"_">> \o ts
        tale_iri == GithubIri(<<Seg("tale"), IriSafe(tid)>>)
        run_iri == IF Get(meta, "run_uri", NoIri) # NoIri THEN meta.run_uri
                   ELSE GithubIri(<<Seg("run"), IriSafe(run_key)>>)
        model_iri == IF Get(meta, "model_uri", NoIri) # NoIri THEN meta.model_uri
                     ELSE GithubIri(<<Seg("model"), IriSafe(Seg(model_key))>>)
        input_iri == IF Get(meta, "input_text_uri", NoIri) # NoIri THEN meta.input_text_uri
                     ELSE GithubIri(<<Seg("text"), IriSafe(tid)>>)
        result_iri == IF Get(meta, "result_uri", NoIri) # NoIri THEN meta.result_uri
                      ELSE GithubIri(<<Seg("result"), IriSafe(tid), ts>>)
        input_snapshot_iri == GithubIri(<<Seg("text"), IriSafe(tid), Seg("snapshot"), ts>>)
        dataset_snapshot_iri ==
            IF source_version # <<>>
            THEN <<GithubIri(<<Seg("datasetSnapshot"), IriSafe(source_version)>>)>> ELSE <<>>
        typing_source == Get(meta, "typing_source", NoneAtom)
        biblio_iri == IF typing_source # NoneAtom
                      THEN <<GithubIri(<<Seg("biblio"), IriSafe(Seg(typing_source))>>)>> ELSE <<>>
        all == result.candidates
        candidates == SubSeq(all, 1, IF Len(all) < k THEN Len(all) ELSE k)
        cand_id(rank) == GithubIri(<<Seg("candidate"), IriSafe(tid), ts, Seg(ToString(rank))>>)
        cand_nodes == [rank \in 1..Len(candidates) |->
            [id |-> cand_id(rank),
             type |-> {"rft:ClassificationCandidate"},
             rank |-> rank,
             predictedTaleType |->
                 GithubIri(<<Seg("taleType"), Seg("atu"), AtuNorm(Strip(PyStr(candidates[rank].atu)))>>),
             notation |-> Strip(PyStr(candidates[rank].atu)),
             confidenceScore |-> candidates[rank].score,
             confidenceBand |-> BandTitle(candidates[rank].confidence_band)]]
        policy_uri == Get(meta, "decision_policy_uri", PolicyUri)
        labels_uri == Get(meta, "labels_uri", LabelsUri)
        used_list == <<model_iri, input_snapshot_iri>> \o dataset_snapshot_iri \o biblio_iri
                         \o <<policy_uri, labels_uri>>
        result_node ==
            [id |-> result_iri,
             type |-> {"rft:ClassificationResult", "prov:Entity"},
             identifier |-> tid,
             forTale |-> tale_iri,
             wasGeneratedBy |-> run_iri,
             hasCandidate |-> [rank \in 1..Len(candidates) |-> cand_id(rank)],
             taleStatus |-> Get(meta, "tale_status", NoneAtom),
             deltaTop12 |-> Get(meta, "delta_top12", <<>>),
             confidenceBand |-> BandTitle(Get(meta, "confidence_band", NoneAtom)),
             decisionPolicyId |-> Get(meta, "decision_policy", "high_else"),
             primaryATU |-> AtuRef(Get(meta, "primary_atu", NULL)),
             modelPrimaryATU |-> AtuRef(Get(meta, "model_primary_atu", NULL)),
             finalATU |-> AtuRef(Get(meta, "final_atu", NULL)),
             finalDecisionSource |-> final_decision_source,
             finalExpertNote |-> Get(meta, "final_expert_note", NoneAtom),
             finalSavedAt |-> IF final_saved_at # <<>> THEN <<ZoneAsZ(final_saved_at[1])>>
                              ELSE <<>>]
        run_node ==
            [id |-> run_iri,
             type |-> {"prov:Activity", "rft:ClassificationRun"},
             identifier |-> run_id,
             startedAtTime |-> created_at,
             forTale |-> tale_iri,
             sourceVersion |-> source_version,
             used |-> used_list,
             generated |-> <<result_iri>>,
             usedModel |-> model_iri]
        model_node ==
            [id |-> model_iri,
             type |-> {"prov:Entity", "rft:Model", "ontoDM:probabilistic_predictive_model"},
             identifier |-> model_key,
             modelSha |-> meta_sha,
             modelTag |-> model_version_tag,
             source |-> biblio_iri]
        input_node ==
            [id |-> input_iri, type |-> {"prov:Entity", "rft:InputText"}, identifier |-> tid]
        input_snapshot_node ==
            [id |-> input_snapshot_iri,
             type |-> {"prov:Entity", "rft:InputTextSnapshot"},
             identifier |-> tid \o <<"@">> \o ts,
             wasDerivedFrom |-> input_iri,
             sha256 |-> Get(meta, "text_sha256", NoneAtom)]
        tale_node == [id |-> tale_iri, type |-> {"rft:Tale"}, identifier |-> tid]
        dataset_snapshot_node ==
            IF dataset_snapshot_iri = <<>> THEN <<>>
            ELSE <<[id |-> dataset_snapshot_iri[1],
                    type |-> {"prov:Entity", "rft:DatasetSnapshot"},
                    identifier |-> source_version]>>
        biblio_node ==
            IF biblio_iri = <<>> THEN <<>>
            ELSE <<[id |-> biblio_iri[1],
                    type |-> {"dcterms:BibliographicResource", "prov:Entity"},
                    label |-> typing_source]>>
        is_hitl == final_decision_source \notin {NoneAtom, "", "model"}
        expert_agent_id == Get(meta, "expert_agent_id", NoneAtom)
        has_agent == expert_agent_id \notin {NoneAtom, ""}
        expert_agent_iri == GithubIri(<<Seg("agent"), IriSafe(Seg(expert_agent_id))>>)
        hitl_node ==
            IF ~is_hitl THEN <<>>
            ELSE <<[id |-> GithubIri(<<Seg("run"), IriSafe(run_key), Seg("hitl")>>),
                    type |-> {"prov:Activity", "rft:HumanReview"},
                    startedAtTime |-> IF final_saved_at # <<>> THEN ZoneAsZ(final_saved_at[1])
                                      ELSE created_at,
                    used |-> <<result_iri>>,
                    wasAttributedTo |-> IF has_agent THEN <<expert_agent_iri>> ELSE <<>>]>>
        expert_agent_node ==
            IF is_hitl /\ has_agent
            THEN <<[id |-> expert_agent_iri, type |-> {"prov:Agent"},
                    identifier |-> expert_agent_id]>>
            ELSE <<>>
    IN  GraphList(<<result_node, run_node, model_node, input_node, input_snapshot_node,
                    tale_node>>,
                  cand_nodes, dataset_snapshot_node, biblio_node, hitl_node,
                  expert_agent_node)

\* the nodes of a graph that carry a type
NodesOfType(graph, t) == SelectSeq(graph, LAMBDA n : t \in n.type)

\* ------------------------------------------------------------------ SpecMint
\* The constructors applied to one raw code and to a second spelling of it.
RawCodes == SeqsUpTo(CodeChars, MaxCodeLen) \cup {NULL}

\* the spellings that differ from raw only in letter case
CaseVariants(raw) ==
    IF raw = NULL THEN {NULL}
    ELSE {v \in SeqsUpTo(CodeChars, MaxCodeLen) : Upper(v) = Upper(raw)}

StarPolicies == {"hyphen", "percent"}
EntityKinds == {"tale", "volume", "person", "place"}

CodeResult(c) == IF c = NULL THEN Raised ELSE Returned(<<c>>)

Both(r1, r2) == [a |-> r1, b |-> r2]

MintInit ==
    /\ mRaw \in RawCodes
    /\ mAlt \in CaseVariants(mRaw)
    /\ mPolicy \in StarPolicies
    /\ mRes = [norm |-> Both(NoCall, NoCall), again |-> NoCall,
               helpers |-> NoCall,
               bkg |-> Both(NoCall, NoCall), types |-> Both(NoCall, NoCall),
               prov |-> Both(NoCall, NoCall)]

MintIdle ==
    /\ mRaw = NULL
    /\ mAlt = NULL
    /\ mPolicy = "hyphen"
    /\ mRes = [norm |-> Both(NoCall, NoCall), again |-> NoCall,
               helpers |-> NoCall,
               bkg |-> Both(NoCall, NoCall), types |-> Both(NoCall, NoCall),
               prov |-> Both(NoCall, NoCall)]

\* kg_helpers.normalize_code on both spellings
CallNormalizeCode ==
    /\ mRes.norm.a.st = "none"
    /\ mRes' = [mRes EXCEPT !.norm = Both(CodeResult(NormalizeCode(mRaw, mPolicy)),
                                           CodeResult(NormalizeCode(mAlt, mPolicy)))]
    /\ UNCHANGED <<mRaw, mAlt, mPolicy, exceptMint>>

\* kg_helpers.normalize_code on a code it returned
CallNormalizeAgain ==
    /\ mRes.norm.a.st = "ok"
    /\ mRes.again.st = "none"
    /\ mRes' = [mRes EXCEPT !.again = CodeResult(NormalizeCode(LastSegment(mRes.norm.a), mPolicy))]
    /\ UNCHANGED <<mRaw, mAlt, mPolicy, exceptMint>>

\* kg_helpers.iri_tale / iri_volume / iri_person / iri_place
CallHelpersIriEntity ==
    /\ mRes.helpers.st = "none"
    /\ \E kind \in EntityKinds : mRes' = [mRes EXCEPT !.helpers = HelpersIriEntity(kind, mRaw)]
    /\ UNCHANGED <<mRaw, mAlt, mPolicy, exceptMint>>

\* kg_helpers.iri_atu
CallHelpersIriAtu ==
    /\ mRes.helpers.st = "none"
    /\ mRes' = [mRes EXCEPT !.helpers = HelpersIriAtu(mRaw, mPolicy)]
    /\ UNCHANGED <<mRaw, mAlt, mPolicy, exceptMint>>

\* build_kg.iri_atu
CallBuildKgIriAtu ==
    /\ mRes.bkg.a.st = "none"
    /\ mRes' = [mRes EXCEPT !.bkg = Both(BuildKgIriAtu(mRaw), BuildKgIriAtu(mAlt))]
    /\ UNCHANGED <<mRaw, mAlt, mPolicy, exceptMint>>

\* export_atu_types.iri_atu
CallAtuTypesIriAtu ==
    /\ mRes.types.a.st = "none"
    /\ mRes' = [mRes EXCEPT !.types = Both(AtuTypesIriAtu(mRaw, mPolicy), AtuTypesIriAtu(mAlt, mPolicy))]
    /\ UNCHANGED <<mRaw, mAlt, mPolicy, exceptMint>>

\* the concept reference of to_jsonld
CallJsonldAtuIri ==
    /\ mRes.prov.a.st = "none"
    /\ mRes' = [mRes EXCEPT !.prov = Both(JsonldAtuIri(mRaw), JsonldAtuIri(mAlt))]
    /\ UNCHANGED <<mRaw, mAlt, mPolicy, exceptMint>>

MintNext ==
    \/ CallNormalizeCode
    \/ CallNormalizeAgain
    \/ CallHelpersIriEntity
    \/ CallHelpersIriAtu
    \/ CallBuildKgIriAtu
    \/ CallAtuTypesIriAtu
    \/ CallJsonldAtuIri

InitMint == MintInit /\ ExportIdle /\ AppIdle /\ KgIdle /\ FunIdle

SpecMint == InitMint /\ [][MintNext]_vars

\* ------------------------------------------------------------------ claims on the minters
IsBlank(x) == x = NULL \/ Strip(x) = <<>>

\* C5: normalize_code is idempotent: normalizing a code it returned gives
\* that code again, under the hyphen and under the percent star policy.
C5_NormalizeIdempotent ==
    mRes.again.st # "none" => mRes.again = mRes.norm.a

\* C6: two spellings of one code that differ only in letter case mint the
\* same concept segment in the graph builder, in the shared minter and in the
\* provenance exporter, and a code with a trailing star mints the same
\* concept in the corpus graph as in a provenance export.
C6_SameConceptEverywhere ==
    /\ mRes.norm.a.st # "none" => mRes.norm.a = mRes.norm.b
    /\ mRes.bkg.a.st # "none" => mRes.bkg.a = mRes.bkg.b
    /\ mRes.prov.a.st # "none" => mRes.prov.a = mRes.prov.b
    /\ (/\ ~IsBlank(mRaw)
        /\ Strip(mRaw)[Len(Strip(mRaw))] = "*"
        /\ mRes.bkg.a.st = "ok"
        /\ mRes.prov.a.st = "ok") => mRes.bkg.a.iri = mRes.prov.a.iri

\* C7: a constructor given a null, empty or whitespace-only value raises, and
\* no constructor returns an identifier whose last segment is empty or the
\* placeholder; for kg_helpers, build_kg.iri_atu and export_atu_types.iri_atu.
C7_NoEmptyIdentifier ==
    \A r \in {mRes.helpers, mRes.bkg.a, mRes.types.a} :
        /\ IsBlank(mRaw) => r.st \in {"none", "raised"}
        /\ r.st = "ok" => LastSegment(r) \notin {<<>>, UnknownSegment}

\* ------------------------------------------------------------------ SpecExport
\* One request after another through classify -> build_export_result ->
\* to_jsonld, as page_classify chains them; build_export_result also takes a raw
\* output that did not come from classify.
TaleIds == {<<"T", "1">>, <<"T", "2">>}
Texts == {"tale one", "tale  one"}
PredCodes == {<<"5", "1", "0", "A">>, <<"4", "8", "0">>}
PredScores == {21, 62, 80}
AnchorScores == {0, 70}
Preds == SeqsUpTo([code : PredCodes, score : PredScores], MaxPreds)

\* top_k=3 and k=3 at the call sites of page_classify
AppTopK == 3

\* entries a suggestions list may hold: no dict, a dict without score, dicts
\* with scores inside and outside [0,1]
RawEntries ==
    {[is_dict |-> FALSE]}
    \cup {[is_dict |-> TRUE, atu_code |-> <<"4", "8", "0">>]}
    \cup {[is_dict |-> TRUE, atu_code |-> <<"5", "1", "0", "A">>, score |-> <<sc>>] :
              sc \in {-20, 150}}

RawRuns ==
    {[x \in {} |-> x]}
    \cup {[confidence_band |-> b] : b \in {"high", "medium"}}
    \cup {[created_at |-> <<[sec |-> t, zone |-> "+00:00"]>>, confidence_band |-> "High"] :
              t \in 1..MaxClock}

\* the clock has a resolution of one second: a call may see the same second
\* as the call before
Tick(now) == {t \in {now, now + 1} : t <= MaxClock}

RunClassify ==
    /\ ePc = "idle"
    /\ \E tale_id \in TaleIds, text_ru \in Texts, preds \in Preds, a \in AnchorScores,
          now \in Tick(eNow) :
          /\ eTale' = tale_id
          /\ eText' = text_ru
          /\ eNow' = now
          /\ eRaw' = Classify(tale_id, text_ru, AppTopK, preds,
                              [c \in {NormalizeAtuCode(x) : x \in PredCodes} |-> a], now)
    /\ eVia' = "classify"
    /\ ePc' = "raw"
    /\ UNCHANGED <<eResult, eGraph, ePrev, exceptExport>>

ReceiveRaw ==
    /\ ePc = "idle"
    /\ \E tale_id \in TaleIds, run \in RawRuns,
          suggestions \in SeqsUpTo(RawEntries, MaxSuggestions), now \in Tick(eNow) :
          /\ eTale' = tale_id
          /\ eNow' = now
          /\ eRaw' = [run |-> run, suggestions |-> suggestions]
    /\ eText' = "tale one"
    /\ eVia' = "raw"
    /\ ePc' = "raw"
    /\ UNCHANGED <<eResult, eGraph, ePrev, exceptExport>>

BuildExport ==
    /\ ePc = "raw"
    /\ eResult' = BuildExportResult(eRaw, eTale, eText, AppTopK)
    /\ ePc' = "result"
    /\ UNCHANGED <<eVia, eTale, eText, eRaw, eGraph, ePrev, eNow, exceptExport>>

ExportJsonld ==
    /\ ePc = "result"
    /\ eGraph' = ToJsonld(eResult, eTale, eNow)
    /\ ePc' = "graph"
    /\ UNCHANGED <<eVia, eTale, eText, eRaw, eResult, ePrev, eNow, exceptExport>>

\* what is kept of an export to compare the next one with
SnapshotNode(graph) == NodesOfType(graph, "rft:InputTextSnapshot")[1]
RunNode(graph) == NodesOfType(graph, "rft:ClassificationRun")[1]
ExportSummary(graph) ==
    [tale |-> NodesOfType(graph, "rft:Tale")[1].identifier,
     sha256 |-> SnapshotNode(graph).sha256,
     started |-> RunNode(graph).startedAtTime,
     snapshot |-> SnapshotNode(graph).id]

NextRequest ==
    /\ ePc = "graph"
    /\ ePrev' = <<ExportSummary(eGraph)>>
    /\ ePc' = "idle"
    /\ eVia' = ""
    /\ eTale' = <<>>
    /\ eText' = ""
    /\ eRaw' = <<>>
    /\ eResult' = <<>>
    /\ eGraph' = <<>>
    /\ UNCHANGED <<eNow, exceptExport>>

ExportNext ==
    \/ RunClassify
    \/ ReceiveRaw
    \/ BuildExport
    \/ ExportJsonld
    \/ NextRequest

InitExport == ExportIdle /\ MintIdle /\ AppIdle /\ KgIdle /\ FunIdle

SpecExport == InitExport /\ [][ExportNext]_vars

\* ------------------------------------------------------------------ claims on the export
Ranks(items) == {items[i].rank : i \in 1..Len(items)}
RanksAreOneToN(items) == Ranks(items) = 1..Len(items)
CandidateNodes(graph) == NodesOfType(graph, "rft:ClassificationCandidate")
ResultNode(graph) == NodesOfType(graph, "rft:ClassificationResult")[1]
InUnit(score) == score = <<>> \/ (score[1] >= 0 /\ score[1] <= 100)

\* C3: the candidate ranks are exactly 1..n, without gap or repeat, in the
\* suggestions classify returns, in the candidates build_export_result
\* builds from any suggestions list, and in the Candidate nodes of to_jsonld.
C3_RanksOneToN ==
    /\ (ePc # "idle" /\ eVia = "classify") => RanksAreOneToN(eRaw.suggestions)
    /\ ePc \in {"result", "graph"} => RanksAreOneToN(eResult.candidates)
    /\ ePc = "graph" => RanksAreOneToN(CandidateNodes(eGraph))

C8_HighBandAtThresholds ==
    (/\ ePc = "graph"
     /\ eVia = "classify"
     /\ Len(eRaw.suggestions) >= 2
     /\ eRaw.suggestions[1].score[1] >= 60
     /\ eRaw.suggestions[1].score[1] - eRaw.suggestions[2].score[1] >= 15) =>
        /\ eResult.meta.confidence_band = "high"
        /\ ResultNode(eGraph).confidenceBand \in {"high", "High"}
        /\ ResultNode(eGraph).primaryATU = AtuRef(eRaw.suggestions[1].atu_code)

\* C9: every confidence band is one of two values, high or low, in classify's
\* suggestions, in the meta and candidates of build_export_result and in the
\* nodes of to_jsonld.
C9_BandsBinary ==
    /\ (ePc # "idle" /\ eVia = "classify") =>
           \A i \in 1..Len(eRaw.suggestions) :
               eRaw.suggestions[i].confidence_band \in {"high", "low"}
    /\ ePc \in {"result", "graph"} =>
           /\ eResult.meta.confidence_band \in {"high", "low"}
           /\ \A i \in 1..Len(eResult.candidates) :
                  eResult.candidates[i].confidence_band \in {"high", "low"}
    /\ ePc = "graph" =>
           /\ ResultNode(eGraph).confidenceBand \in {"High", "low"}
           /\ \A i \in 1..Len(CandidateNodes(eGraph)) :
                  CandidateNodes(eGraph)[i].confidenceBand \in {"High", "low"}

\* C10: every candidate score build_export_result stores and every
\* confidenceScore to_jsonld emits lies in [0,1], whatever the raw scores.
C10_ScoresClamped ==
    /\ ePc \in {"result", "graph"} =>
           \A i \in 1..Len(eResult.candidates) : InUnit(eResult.candidates[i].score)
    /\ ePc = "graph" =>
           \A i \in 1..Len(CandidateNodes(eGraph)) :
               InUnit(CandidateNodes(eGraph)[i].confidenceScore)

\* ------------------------------------------------------------------ SpecApp
\* app.page_classify.  Every interaction reruns the page from the top; an
\* action is one rerun, up to the call of to_jsonld.
ModeModel == "Use model suggestion"
ModeExpert == "Expert override"
Notes == {"", "motif cue"}
CustomCodes == {<<>>, <<"7", "0", "7">>}

\* what the classifier may return for the text of a request
PagePreds ==
    {<<>>,
     <<[code |-> <<"4", "8", "0">>, score |-> 80]>>,
     <<[code |-> <<"5", "1", "0", "A">>, score |-> 62], [code |-> <<"4", "8", "0">>, score |-> 21]>>}

\* meta_model.get("primary_atu") or effective_meta.get("primary_atu"), dropped
ModelPrimaryDropped(meta_model, effective_meta) == NULL

\* meta_model.get("primary_atu") or effective_meta.get("primary_atu")
ModelPrimary(meta_model, effective_meta) ==
    IF Get(meta_model, "primary_atu", NULL) \notin {NULL, <<>>}
    THEN meta_model.primary_atu
    ELSE Get(effective_meta, "primary_atu", NULL)

\* dict.pop(key, None) for each of the keys
Without(d, keys) == [key \in DOMAIN d \ keys |-> d[key]]

\* the codes the selectbox and the text input let the expert save
ExpertChoices(result) ==
    {result.candidates[i].atu : i \in 1..Len(result.candidates)} \cup CustomCodes

\* expert_mode_default
RadioDefault(expert_state) ==
    IF Get(expert_state, "atu", <<>>) # <<>> THEN ModeExpert ELSE ModeModel

\* what the radio holds in a rerun in which the user did not touch it: its
\* value, or its default when it is drawn with another default than before
RadioValues(mode, old_default, new_default) ==
    IF old_default = new_default THEN {mode} ELSE {mode, new_default}

\* lines 2010-2057: the result handed to the exporter
EffectiveResult(result, expert_state, mode) ==
    LET meta_model == result.meta
        use_expert == mode = ModeExpert /\ Get(expert_state, "atu", <<>>) # <<>>
        model_primary == ModelPrimary(meta_model, meta_model)
        reset == Without([model_primary_atu |-> model_primary] @@ meta_model,
                         {"hitl_activity_uri", "was_derived_from_result_uri", "expert_agent_id"})
        final_atu == Strip(Get(expert_state, "atu", <<>>))
        run_uri == Get(reset, "run_uri", NoIri)
        effective_meta ==
            IF use_expert
            THEN [final_decision_source |-> "expert",
                  final_atu |-> final_atu,
                  final_expert_note |-> Get(expert_state, "note", ""),
                  final_saved_at |-> Get(expert_state, "saved_at", <<>>),
                  primary_atu |-> final_atu,
                  tale_status |-> "review",
                  hitl_activity_uri |-> [run_uri EXCEPT !.path = @ \o <<Seg("hitl")>>],
                  was_derived_from_result_uri |-> Get(reset, "result_uri", NoIri),
                  expert_agent_id |-> "expert_1"] @@ reset
            ELSE [final_decision_source |-> "model",
                  final_atu |-> IF model_primary = NULL THEN <<>> ELSE Strip(model_primary),
                  final_expert_note |-> "",
                  final_saved_at |-> <<>>] @@ reset
        effective_tale_id ==
            Strip(IF Get(effective_meta, "tale_id", <<>>) # <<>> THEN effective_meta.tale_id
                  ELSE IF result.id # <<>> THEN result.id ELSE <<"t", "a", "l", "e">>)
    IN  [id |-> effective_tale_id, meta |-> effective_meta, candidates |-> result.candidates]

\* the end of a rerun: the effective result and the JSON-LD made from it
Handed(result, expert_state, mode, now) ==
    LET effective_result == EffectiveResult(result, expert_state, mode)
    IN  <<[result |-> effective_result,
           graph |-> ToJsonld(effective_result, effective_result.id, now)]>>

\* Submit without line 1931: the saved expert decision is kept
SubmitKeepsExpert ==
    \E tale_id \in TaleIds, text_ru \in Texts, preds \in PagePreds, a \in AnchorScores,
       now \in Tick(aNow), mode \in RadioValues(aMode, aRadioDefault, RadioDefault(aExpert)) :
        LET raw == Classify(tale_id, text_ru, AppTopK, preds,
                            [c \in {NormalizeAtuCode(x) : x \in PredCodes} |-> a], now)
        IN  /\ aResult' = <<BuildExportResult(raw, tale_id, text_ru, AppTopK)>>
            /\ aModelPrimary' = raw.run.primary_atu
            /\ aMode' = mode
            /\ aRadioDefault' = RadioDefault(aExpert)
            /\ aNow' = now
            /\ aHanded' = Handed(aResult'[1], aExpert, mode, now)
            /\ UNCHANGED <<aExpert, exceptApp>>

Submit ==
    \E tale_id \in TaleIds, text_ru \in Texts, preds \in PagePreds, a \in AnchorScores,
       now \in Tick(aNow), mode \in RadioValues(aMode, aRadioDefault, ModeModel) :
        LET raw == Classify(tale_id, text_ru, AppTopK, preds,
                            [c \in {NormalizeAtuCode(x) : x \in PredCodes} |-> a], now)
        IN  /\ aResult' = <<BuildExportResult(raw, tale_id, text_ru, AppTopK)>>
            /\ aExpert' = <<>>
            /\ aModelPrimary' = raw.run.primary_atu
            /\ aMode' = mode
            /\ aRadioDefault' = ModeModel
            /\ aNow' = now
            /\ aHanded' = Handed(aResult'[1], <<>>, mode, now)
            /\ UNCHANGED exceptApp

SwitchMode ==
    /\ aResult # <<>>
    /\ aMode' = IF aMode = ModeModel THEN ModeExpert ELSE ModeModel
    /\ aRadioDefault' = RadioDefault(aExpert)
    /\ aHanded' = Handed(aResult[1], aExpert, aMode', aNow)
    /\ UNCHANGED <<aResult, aExpert, aModelPrimary, aNow, exceptApp>>

\* the buttons are drawn, and read, only while the radio holds "Expert override"
SaveExpert ==
    /\ aResult # <<>>
    /\ aMode = ModeExpert
    /\ \E expert_atu \in ExpertChoices(aResult[1]), expert_note \in Notes,
          now \in Tick(aNow),
          mode \in RadioValues(aMode, aRadioDefault, RadioDefault(aExpert)) :
          /\ aMode' = mode
          /\ aNow' = now
          /\ aExpert' = IF mode = ModeExpert
                        THEN [atu |-> expert_atu, note |-> expert_note,
                              saved_at |-> <<[sec |-> now, zone |-> "+00:00"]>>]
                        ELSE aExpert
    /\ aRadioDefault' = RadioDefault(aExpert)
    /\ aHanded' = Handed(aResult[1], aExpert', aMode', aNow')
    /\ UNCHANGED <<aResult, aModelPrimary, exceptApp>>

ClearExpert ==
    /\ aResult # <<>>
    /\ aMode = ModeExpert
    /\ \E mode \in RadioValues(aMode, aRadioDefault, RadioDefault(aExpert)) :
          /\ aMode' = mode
          /\ aExpert' = IF mode = ModeExpert THEN <<>> ELSE aExpert
    /\ aRadioDefault' = RadioDefault(aExpert)
    /\ aHanded' = Handed(aResult[1], aExpert', aMode', aNow)
    /\ UNCHANGED <<aResult, aModelPrimary, aNow, exceptApp>>

AppNext ==
    \/ Submit
    \/ SwitchMode
    \/ SaveExpert
    \/ ClearExpert

InitApp == AppIdle /\ MintIdle /\ ExportIdle /\ KgIdle /\ FunIdle

SpecApp == InitApp /\ [][AppNext]_vars

\* ------------------------------------------------------------------ claims on the page
OverrideInEffect ==
    aHanded # <<>> /\ aHanded[1].result.meta.final_decision_source = "expert"

\* the keys of the handed meta that may differ from the stored model meta
FinalKeys == {"final_decision_source", "final_atu", "final_expert_note", "final_saved_at"}
HitlKeys == {"hitl_activity_uri", "was_derived_from_result_uri", "expert_agent_id"}

\* the handed meta agrees with the stored model meta outside the given keys
SameOutside(keys) ==
    LET handed == aHanded[1].result.meta
        stored == aResult[1].meta
    IN  \A key \in DOMAIN handed \ (keys \cup {"model_primary_atu"}) :
            key \in DOMAIN stored /\ handed[key] = stored[key]

\* C1 (as stated): after any sequence of Submit, Save, Clear and mode switches
\* the meta handed to the exporter has model_primary_atu equal to the primary
\* code of the most recent classification, and an override changes only
\* primary_atu and the final_* fields.
C1_OverrideChangesOnlyPrimaryAndFinal ==
    aHanded # <<>> =>
        /\ aHanded[1].result.meta.model_primary_atu = aModelPrimary
        /\ SameOutside({"primary_atu"} \cup FinalKeys)

\* C1 (amended): model_primary_atu is the primary code of the most recent
\* classification, override or not; an override changes primary_atu,
\* tale_status and the final_* fields and adds the three review keys; without
\* an override only the final_* fields are added.  The candidates are the
\* model's in both cases.
C1_ModelPrimaryPreserved ==
    aHanded # <<>> =>
        /\ aHanded[1].result.meta.model_primary_atu = aModelPrimary
        /\ aHanded[1].result.candidates = aResult[1].candidates
        /\ IF OverrideInEffect
           THEN SameOutside({"primary_atu", "tale_status"} \cup FinalKeys \cup HitlKeys)
           ELSE SameOutside(FinalKeys)

\* an override that names another code than the model's is in effect
C1_OverrideWithOtherCode ==
    /\ OverrideInEffect
    /\ aModelPrimary # NULL
    /\ aHanded[1].result.meta.primary_atu # aModelPrimary
    /\ aHanded[1].result.meta.final_atu # aModelPrimary

\* ------------------------------------------------------------------ SpecKG
\* rdf/build_kg.build_graph over a table of rows.  A cell is a short text (an
\* atom); the collectors cell holds the list of person ids it parses to.
RequiredColumns == <<"tale_id", "volume_id", "collection">>
AllColumns == {"tale_id", "volume_id", "collection", "collector_person_ids", "source_ref"}

\* build_kg.clean_ws on a cell
CleanWsCell(x) ==
    CASE x = " " -> ""
      [] x = " V1" -> "V1"
      [] OTHER -> x

\* build_kg.slugify / collection_code
Slugify(x) ==
    CASE CleanWsCell(x) = "" -> "unknown"
      [] x = "era_vene" -> "era-vene"
      [] x = "rkm_vene" -> "rkm-vene"
      [] OTHER -> x

\* build_kg.volume_label_from_source_ref on a citation
VolumeLabelFromSourceRef(x) ==
    CASE CleanWsCell(x) = "" -> ""
      [] x = "ERA, Vene 1, 5/6" -> "ERA, Vene 1"
      [] x = "ERA, Vene 2, 17" -> "ERA, Vene 2 17"
      [] OTHER -> x

\* build_kg.ensure_list of a list, then collectors_from_row's own filter
CollectorsFromRow(row, columns) ==
    IF "collector_person_ids" \in columns
    THEN SelectSeq([i \in 1..Len(row.collector_person_ids) |->
                       CleanWsCell(row.collector_person_ids[i])],
                   LAMBDA pid : pid # "")
    ELSE <<>>

\* DataFrame.drop_duplicates(subset=[key], keep="last")
RECURSIVE DropDuplicatesKeepLast(_, _)
DropDuplicatesKeepLast(rows, key) ==
    IF rows = <<>> THEN <<>>
    ELSE LET n == Len(rows)
             before == SubSeq(rows, 1, n - 1)
         IN  DropDuplicatesKeepLast(SelectSeq(before, LAMBDA r : r[key] # rows[n][key]), key)
             \o <<rows[n]>>

\* DataFrame.drop_duplicates(subset=[key], keep="first")
RECURSIVE DropDuplicates(_, _)
DropDuplicates(rows, key) ==
    IF rows = <<>> THEN <<>>
    ELSE <<Head(rows)>>
         \o DropDuplicates(SelectSeq(Tail(rows), LAMBDA r : r[key] # Head(rows)[key]), key)

\* the three required columns after .map(clean_ws)
CleanRows(rows) ==
    [i \in 1..Len(rows) |->
        [rows[i] EXCEPT !.tale_id = CleanWsCell(@),
                        !.volume_id = CleanWsCell(@),
                        !.collection = CleanWsCell(@)]]

\* nodes and literals of the corpus graph
Volume(vid) == [kind |-> "volume", id |-> vid]
Collection(code) == [kind |-> "collection", id |-> code]
Person(pid) == [kind |-> "person", id |-> pid]
Tale(tid) == [kind |-> "tale", id |-> tid]
Literal(text) == [kind |-> "literal", id |-> text]
Class(name) == [kind |-> "class", id |-> name]
DatasetIri == [kind |-> "dataset", id |-> "corpus/v1"]

\* build_graph, part 1: volumes and collections
VolumeRowsFilterLast(df) ==
    SelectSeq(DropDuplicates(df, "volume_id"), LAMBDA r : r.volume_id # "" /\ r.collection # "")

VolumeRows(df) ==
    DropDuplicates(SelectSeq(df, LAMBDA r : r.volume_id # "" /\ r.collection # ""), "volume_id")

VolumeTriples(row, columns) ==
    LET vol_uri == Volume(row.volume_id)
        coll_uri == Collection(Slugify(row.collection))
        collectors == CollectorsFromRow(row, columns)
        lbl == IF "source_ref" \in columns THEN VolumeLabelFromSourceRef(row.source_ref) ELSE ""
    IN  {<<vol_uri, "rdf:type", Class("dcterms:BibliographicResource")>>,
         <<vol_uri, "dcterms:identifier", Literal(row.volume_id)>>,
         <<vol_uri, "dcterms:isPartOf", coll_uri>>,
         <<coll_uri, "rdf:type", Class("dcmitype:Collection")>>,
         <<coll_uri, "dcterms:identifier", Literal(row.collection)>>,
         <<coll_uri, "rdfs:label", Literal(row.collection)>>}
        \cup (IF lbl # "" THEN {<<vol_uri, "rdfs:label", Literal(lbl)>>} ELSE {})
        \cup {<<vol_uri, "dcterms:creator", Person(collectors[i])>> : i \in 1..Len(collectors)}

\* build_graph, part 2: tales
TaleRowsAll(df) == SelectSeq(df, LAMBDA r : r.tale_id # "")

TaleRows(df) == DropDuplicates(SelectSeq(df, LAMBDA r : r.tale_id # ""), "tale_id")

TaleTriples(row, columns, add_dataset_links) ==
    LET tale_uri == Tale(row.tale_id)
        vid == CleanWsCell(row.volume_id)
        src == IF "source_ref" \in columns THEN CleanWsCell(row.source_ref) ELSE ""
    IN  {<<tale_uri, "rdf:type", Class("crm:E33_Linguistic_Object")>>,
         <<tale_uri, "dcterms:identifier", Literal(row.tale_id)>>}
        \cup (IF vid # "" THEN {<<tale_uri, "dcterms:isPartOf", Volume(vid)>>,
                                <<tale_uri, "dcterms:source", Volume(vid)>>} ELSE {})
        \cup (IF add_dataset_links THEN {<<tale_uri, "dcterms:isPartOf", DatasetIri>>} ELSE {})
        \cup (IF src # "" THEN {<<tale_uri, "dcterms:bibliographicCitation", Literal(src)>>}
              ELSE {})

\* build_kg.build_graph: the graph, or the KeyError for the first missing column
BuildGraph(table, add_dataset_links) ==
    LET missing == SelectSeq(RequiredColumns, LAMBDA c : c \notin table.columns)
        df == CleanRows(table.rows)
        vdf == VolumeRows(df)
        tdf == TaleRows(df)
    IN  IF missing # <<>> THEN [st |-> "KeyError", column |-> missing[1], graph |-> {}]
        ELSE [st |-> "ok", column |-> "",
              graph |-> UNION {VolumeTriples(vdf[i], table.columns) : i \in 1..Len(vdf)}
                        \cup UNION {TaleTriples(tdf[i], table.columns, add_dataset_links) : i \in 1..Len(tdf)}]

\* what a row carries besides its two ids: collection, collectors, citation
RowProfiles ==
    {[collection |-> "era_vene", collector_person_ids |-> <<"A">>,
      source_ref |-> "ERA, Vene 1, 5/6"],
     [collection |-> "era_vene", collector_person_ids |-> <<"B">>,
      source_ref |-> "ERA, Vene 2, 17"],
     [collection |-> "rkm_vene", collector_person_ids |-> <<>>, source_ref |-> ""],
     [collection |-> " ", collector_person_ids |-> <<"A">>,
      source_ref |-> "ERA, Vene 1, 5/6"]}

TableRows ==
    {[tale_id |-> t, volume_id |-> v] @@ p :
        t \in {"T1", "T2", ""}, v \in {"V1", "V2", ""}, p \in RowProfiles}

\* the input files of a run: all five columns, the three required ones only,
\* the two id columns only, and tables that lack one column
Tables ==
    {[columns |-> AllColumns, rows |-> rows] : rows \in SeqsUpTo(TableRows, MaxRows)}
    \cup {[columns |-> {"tale_id", "volume_id", "collection"},
           rows |-> <<[tale_id |-> "T1", volume_id |-> "V1", collection |-> c]>>] :
             c \in {"era_vene", " "}}
    \cup {[columns |-> {"tale_id", "volume_id"},
           rows |-> <<[tale_id |-> "T1", volume_id |-> "V1"]>>]}
    \cup {[columns |-> AllColumns \ {c}, rows |-> <<>>] : c \in AllColumns}

\* what a run raised where main has no handler
Raise(error, column) == [st |-> error, column |-> column, graph |-> {}]

\* main after build_graph: an exception leaves main, a graph goes on to be written
AfterBuildSwallowed(out) == "built"

AfterBuild(out) == IF out.st = "ok" THEN "built" ELSE "failed"

\* main up to the filters: the input file does not exist
MainInputMissing ==
    /\ kPc = "idle"
    /\ kFile < MaxWrites
    /\ kPc' = "failed"
    /\ kOut' = Raise("FileNotFoundError", "")
    /\ UNCHANGED <<kTable, kFile, exceptKg>>

\* main up to the filters, none of them given: the input file is read
LoadTable ==
    /\ kPc = "idle"
    /\ kFile < MaxWrites
    /\ kTable' \in Tables
    /\ kPc' = "loaded"
    /\ UNCHANGED <<kOut, kFile, exceptKg>>

CallBuildGraph ==
    /\ kPc = "loaded"
    /\ \E add_dataset_links \in BOOLEAN : kOut' = BuildGraph(kTable, add_dataset_links)
    /\ kPc' = AfterBuild(kOut')
    /\ UNCHANGED <<kTable, kFile, exceptKg>>

\* out_path.write_text(g.serialize(...))
WriteOutput ==
    /\ kPc = "built"
    /\ kFile' = kFile + 1
    /\ kPc' = "written"
    /\ UNCHANGED <<kTable, kOut, exceptKg>>

\* the run is over; the output file stays for the next run
NextTable ==
    /\ kPc \in {"written", "failed"}
    /\ kPc' = "idle"
    /\ kTable' = <<>>
    /\ kOut' = <<>>
    /\ UNCHANGED <<kFile, exceptKg>>

KgNext ==
    \/ MainInputMissing
    \/ LoadTable
    \/ CallBuildGraph
    \/ WriteOutput
    \/ NextTable

InitKg == KgIdle /\ MintIdle /\ ExportIdle /\ AppIdle /\ FunIdle

SpecKG == InitKg /\ [][KgNext]_vars

\* ------------------------------------------------------------------ claims on the corpus graph
\* the rows of the table that can make a Volume node for vid
RowsOfVolume(vid) ==
    SelectSeq(CleanRows(kTable.rows), LAMBDA r : r.volume_id = vid /\ r.collection # "")

VolumeIds == {CleanRows(kTable.rows)[i].volume_id : i \in 1..Len(kTable.rows)} \ {""}

VolumeNodes(vid) ==
    {t[1] : t \in {u \in kOut.graph : /\ u[2] = "dcterms:identifier"
                                      /\ u[3] = Literal(vid)
                                      /\ u[1].kind = "volume"}}

Creators(vid) ==
    {t[3].id : t \in {u \in kOut.graph : u[1] = Volume(vid) /\ u[2] = "dcterms:creator"}}

CollectorSet(row) ==
    IF "collector_person_ids" \in DOMAIN row
    THEN {row.collector_person_ids[i] : i \in 1..Len(row.collector_person_ids)}
    ELSE {}

Built == kPc \in {"built", "written"} /\ kOut.st = "ok"

\* C2 (as stated): rows that share a volume id (and have a collection) give
\* exactly one Volume node, with a creator edge to every collector of every
\* one of these rows.
C2_VolumeHasCollectorsOfAllRows ==
    Built =>
        \A vid \in VolumeIds :
            RowsOfVolume(vid) # <<>> =>
                /\ Cardinality(VolumeNodes(vid)) = 1
                /\ Creators(vid) =
                       UNION {CollectorSet(RowsOfVolume(vid)[i]) : i \in 1..Len(RowsOfVolume(vid))}

\* C2 (amended): rows that share a volume id (and have a collection) give
\* exactly one Volume node, with a creator edge to each collector of the first
\* of these rows and to no collector that only a later row names.
C2_VolumeHasCollectorsOfFirstRow ==
    Built =>
        \A vid \in VolumeIds :
            RowsOfVolume(vid) # <<>> =>
                /\ Cardinality(VolumeNodes(vid)) = 1
                /\ Creators(vid) = CollectorSet(RowsOfVolume(vid)[1])

\* rows {T1,V1,[A]} and {T2,V1,[B]} were built into one Volume with creator A
C2_TwoRowsOneVolume ==
    /\ Built
    /\ Len(RowsOfVolume("V1")) = 2
    /\ CollectorSet(RowsOfVolume("V1")[1]) = {"A"}
    /\ CollectorSet(RowsOfVolume("V1")[2]) = {"B"}
    /\ Creators("V1") = {"A"}

\* build_graph was called on the table of this run and returned or raised
BuildGraphDone == kPc \in {"built", "written"} \/ (kPc = "failed" /\ kOut.st = "KeyError")

IdColumns == {"tale_id", "volume_id"}

\* C13: the required-column check of build_graph fails exactly when tale_id or
\* volume_id is absent, and the error names the absent column; a table with
\* these two columns alone is built.
C13_FailsIffIdColumnMissing ==
    BuildGraphDone =>
        /\ (kOut.st = "KeyError") <=> (IdColumns \ kTable.columns # {})
        /\ kOut.st = "KeyError" => kOut.column \in IdColumns \ kTable.columns

\* C14: a run that fails (input file missing, required column missing) has
\* created no triple and leaves the output file as it was; the output file
\* changes only in the step after build_graph has returned a graph.
C14_NoOutputOnFatalError ==
    [][/\ kPc' = "failed" =>
            /\ kOut'.st \in {"FileNotFoundError", "KeyError"}
            /\ kOut'.graph = {}
            /\ kFile' = kFile
       /\ kFile' # kFile =>
            /\ kPc = "built"
            /\ kOut.st = "ok"
            /\ kOut' = kOut
       /\ (kPc = "failed" /\ kPc' = "idle") => kFile' = kFile]_vars

\* a run failed on a missing column while an output file of an earlier run exists
C14_FailedRunBesideOldOutput ==
    /\ kPc = "failed"
    /\ kOut.st = "KeyError"
    /\ kFile = 1

\* the rows of the table that carry volume id vid, in table order
RowsWithVolumeId(vid) == SelectSeq(CleanRows(kTable.rows), LAMBDA r : r.volume_id = vid)

\* what a row would give its Volume node: label, collection, creators
VolumeAttributes(row) ==
    [label |-> IF "source_ref" \in DOMAIN row /\ VolumeLabelFromSourceRef(row.source_ref) # ""
               THEN {VolumeLabelFromSourceRef(row.source_ref)} ELSE {},
     collection |-> {Slugify(row.collection)},
     creators |-> CollectorSet(row)]

\* what the Volume node of vid has in the graph
VolumeNodeAttributes(vid) ==
    [label |-> {t[3].id : t \in {u \in kOut.graph : u[1] = Volume(vid) /\ u[2] = "rdfs:label"}},
     collection |-> {t[3].id : t \in {u \in kOut.graph : u[1] = Volume(vid)
                                                          /\ u[2] = "dcterms:isPartOf"}},
     creators |-> Creators(vid)]

\* C15 (as stated): the Volume node of a volume id has the label, collection
\* link and creator links of the first row in table order with that volume id.
C15_VolumeFromFirstRowWithId ==
    Built =>
        \A vid \in VolumeIds :
            VolumeNodes(vid) # {} =>
                VolumeNodeAttributes(vid) = VolumeAttributes(RowsWithVolumeId(vid)[1])

\* C15 (amended): the Volume node of a volume id has the label, collection link
\* and creator links of the first row in table order that has that volume id
\* and a non-empty collection, and of no other row; a volume id none of whose
\* rows has a collection gets no Volume node.
C15_VolumeFromFirstRowWithCollection ==
    Built =>
        \A vid \in VolumeIds :
            IF RowsOfVolume(vid) = <<>>
            THEN VolumeNodes(vid) = {}
            ELSE /\ VolumeNodes(vid) = {Volume(vid)}
                 /\ VolumeNodeAttributes(vid) = VolumeAttributes(RowsOfVolume(vid)[1])

\* two rows of V1 with collections: label, collection and creators are the
\* first row's, all three different from the second row's
C15_LaterRowContributesNothing ==
    /\ Built
    /\ Len(RowsOfVolume("V1")) = 2
    /\ VolumeAttributes(RowsOfVolume("V1")[1]).label # VolumeAttributes(RowsOfVolume("V1")[2]).label
    /\ VolumeAttributes(RowsOfVolume("V1")[1]).collection
           # VolumeAttributes(RowsOfVolume("V1")[2]).collection
    /\ VolumeAttributes(RowsOfVolume("V1")[1]).creators
           # VolumeAttributes(RowsOfVolume("V1")[2]).creators
    /\ VolumeNodeAttributes("V1") = VolumeAttributes(RowsOfVolume("V1")[1])

\* the distinct non-empty tale ids of the table
TaleIdsOfTable == {CleanRows(kTable.rows)[i].tale_id : i \in 1..Len(kTable.rows)} \ {""}

RowsWithTaleId(tid) == SelectSeq(CleanRows(kTable.rows), LAMBDA r : r.tale_id = tid)

TaleNodes ==
    {t[1] : t \in {u \in kOut.graph : /\ u[2] = "rdf:type"
                                      /\ u[3] = Class("crm:E33_Linguistic_Object")}}

\* the tale nodes that carry tid as their identifier
TaleNodesOf(tid) ==
    {n \in TaleNodes : <<n, "dcterms:identifier", Literal(tid)>> \in kOut.graph}

\* the volumes a node is contained in
VolumesOf(node) ==
    {t[3] : t \in {u \in kOut.graph : /\ u[1] = node
                                      /\ u[2] = "dcterms:isPartOf"
                                      /\ u[3].kind = "volume"}}

\* C16: build_graph makes exactly one Tale node per distinct non-empty tale id
\* and no other; a Tale node is contained in at most one Volume, the volume of
\* the first row with that tale id (none if that row has no volume id).
C16_OneTalePerIdInFirstVolume ==
    Built =>
        /\ Cardinality(TaleNodes) = Cardinality(TaleIdsOfTable)
        /\ \A tid \in TaleIdsOfTable :
               /\ Cardinality(TaleNodesOf(tid)) = 1
               /\ \A n \in TaleNodesOf(tid) :
                      VolumesOf(n) = {Volume(RowsWithTaleId(tid)[1].volume_id)} \ {Volume("")}

\* rows <T1, V1> and <T2, V1>: two Tale nodes, each contained in V1
C16_TwoTalesOneVolume ==
    /\ Built
    /\ Len(kTable.rows) = 2
    /\ kTable.rows[1].tale_id = "T1" /\ kTable.rows[1].volume_id = "V1"
    /\ kTable.rows[2].tale_id = "T2" /\ kTable.rows[2].volume_id = "V1"
    /\ TaleNodes = {Tale("T1"), Tale("T2")}
    /\ VolumesOf(Tale("T1")) = {Volume("V1")}
    /\ VolumesOf(Tale("T2")) = {Volume("V1")}

\* ------------------------------------------------------------------ SpecReview
\* app.apply_expert_override between build_export_result and to_jsonld: the
\* export of a classification with an expert decision applied to it.
ExpertStates ==
    {<<>>,
     [atu |-> <<" ">>, note |-> ""],
     [atu |-> <<"7", "0", "7">>, note |-> "motif cue",
      saved_at |-> <<[sec |-> 1, zone |-> "+00:00"]>>]}

\* app.apply_expert_override
ApplyExpertOverride(result, expert_state) ==
    LET meta == result.meta
        model_primary == Get(meta, "primary_atu", NULL)
        expert_atu == Strip(Get(expert_state, "atu", <<>>))
    IN  [result EXCEPT !.meta =
            IF expert_atu # <<>>
            THEN [tale_status |-> "by expert",
                  final_decision_source |-> "expert",
                  final_atu |-> expert_atu,
                  final_expert_note |-> Get(expert_state, "note", ""),
                  final_saved_at |-> Get(expert_state, "saved_at", <<>>),
                  primary_atu |-> expert_atu,
                  model_primary_atu |-> model_primary] @@ meta
            ELSE [final_decision_source |-> "model",
                  final_atu |-> IF model_primary = NULL THEN <<>> ELSE model_primary,
                  final_expert_note |-> "",
                  final_saved_at |-> <<>>,
                  model_primary_atu |-> model_primary] @@ meta]

\* a classification has been made and waits to be exported
InitReview ==
    /\ MintIdle /\ AppIdle /\ KgIdle /\ FunIdle
    /\ ePc = "raw"
    /\ eVia = "classify"
    /\ eTale \in TaleIds
    /\ eText \in Texts
    /\ eNow = 0
    /\ \E preds \in PagePreds, a \in AnchorScores :
          eRaw = Classify(eTale, eText, AppTopK, preds,
                          [c \in {NormalizeAtuCode(x) : x \in PredCodes} |-> a], eNow)
    /\ eResult = <<>>
    /\ eGraph = <<>>
    /\ ePrev = <<>>

CallApplyExpertOverride ==
    /\ ePc = "result"
    /\ \E expert_state \in ExpertStates : eResult' = ApplyExpertOverride(eResult, expert_state)
    /\ UNCHANGED <<ePc, eVia, eTale, eText, eRaw, eGraph, ePrev, eNow, exceptExport>>

ReviewNext ==
    \/ BuildExport
    \/ CallApplyExpertOverride
    \/ ExportJsonld

SpecReview == InitReview /\ [][ReviewNext]_vars

\* ------------------------------------------------------------------ claims on the review export
HumanReviewNodes(graph) == NodesOfType(graph, "rft:HumanReview")
AgentIds(graph) == {NodesOfType(graph, "prov:Agent")[i].id :
                        i \in 1..Len(NodesOfType(graph, "prov:Agent"))}
FromHuman(meta) == Get(meta, "final_decision_source", NoneAtom) \notin {NoneAtom, "", "model"}

\* C11: to_jsonld emits a HumanReview node exactly when the final decision
\* comes from a human override, and every HumanReview node is attributed to an
\* agent whose Agent node is in the graph.
C11_HumanReviewAttributed ==
    ePc = "graph" =>
        /\ (HumanReviewNodes(eGraph) # <<>>) <=> FromHuman(eResult.meta)
        /\ \A i \in 1..Len(HumanReviewNodes(eGraph)) :
               /\ HumanReviewNodes(eGraph)[i].wasAttributedTo # <<>>
               /\ HumanReviewNodes(eGraph)[i].wasAttributedTo[1] \in AgentIds(eGraph)

\* ------------------------------------------------------------------ SpecTextFlow
\* build_export_result and to_jsonld called twice on the same raw output and
\* tale id, with two texts.
FlowTexts == {"tale one", "collision 1", "collision 2"}

FlowRaws ==
    {Classify(<<"T", "1">>, "tale one", AppTopK, preds,
              [c \in {NormalizeAtuCode(x) : x \in PredCodes} |-> 0], 0) : preds \in PagePreds}
    \cup {[run |-> run, suggestions |-> <<>>] : run \in RawRuns}

InitTextFlow ==
    /\ MintIdle /\ ExportIdle /\ AppIdle /\ KgIdle
    /\ fIn \in [raw : FlowRaws, tale_id : TaleIds, text_a : FlowTexts, text_b : FlowTexts]
    /\ fOut = <<>>

\* the export of one text: the result and the graph made from it
ExportOf(raw, tale_id, text_ru) ==
    LET result == BuildExportResult(raw, tale_id, text_ru, AppTopK)
    IN  [result |-> result, graph |-> ToJsonld(result, tale_id, 0)]

ExportBothTexts ==
    /\ fOut = <<>>
    /\ fOut' = <<ExportOf(fIn.raw, fIn.tale_id, fIn.text_a),
                 ExportOf(fIn.raw, fIn.tale_id, fIn.text_b)>>
    /\ UNCHANGED <<fIn, exceptFun>>

TextFlowNext == ExportBothTexts

SpecTextFlow == InitTextFlow /\ [][TextFlowNext]_vars

\* C12: the export depends on the text only through its SHA-256: two calls
\* that differ only in texts with one digest give identical results and
\* graphs, so neither holds the text or a part of it.
C12_TextOnlyThroughHash ==
    (fOut # <<>> /\ Sha256Hex(fIn.text_a) = Sha256Hex(fIn.text_b)) => fOut[1] = fOut[2]

\* two different texts with one digest were exported
C12_TwoTextsOneDigest ==
    /\ fOut # <<>>
    /\ fIn.text_a # fIn.text_b
    /\ Sha256Hex(fIn.text_a) = Sha256Hex(fIn.text_b)
    /\ fOut[1].result.meta.text_sha256 = Sha256Hex(fIn.text_a)
    /\ fOut[1] = fOut[2]

\* ------------------------------------------------------------------ SpecCell
\* ensure_list of rdf/build_kg.py and rdf/export_agents.py (the two are the
\* same text) on one cell.  A cell is None or a sequence of characters; over
\* CellChars a JSON text is a string or an array of such, and a Python literal
\* is a string (adjacent strings joined) or a list display of such.
CellChars == {"a", " ", ",", "[", "]", "\"", "'"}
QuoteChars == {"\"", "'"}
Sentinels == {<<"<", "n", "a", ">">>, <<"n", "a">>, <<"n", "a", "n">>, <<"n", "o", "n", "e">>}

RECURSIVE SkipWs(_, _)
SkipWs(s, i) == IF i <= Len(s) /\ IsWs(s[i]) THEN SkipWs(s, i + 1) ELSE i

Least(S) == CHOOSE j \in S : \A k \in S : j <= k

\* what a scanner gives: the value read and the position after it
ParseFail == [ok |-> FALSE, val |-> <<>>, next |-> 0]
Parsed(val, next) == [ok |-> TRUE, val |-> val, next |-> next]
StrValue(chars) == [t |-> "str", v |-> chars]
ListValue(items) == [t |-> "list", v |-> items]

\* json: the string that opens with the quote at i
JsonString(s, i) ==
    LET ends == {j \in (i + 1)..Len(s) : s[j] = "\""}
    IN  IF ends = {} THEN ParseFail
        ELSE Parsed(StrValue(SubSeq(s, i + 1, Least(ends) - 1)), Least(ends) + 1)

RECURSIVE JsonValue(_, _)
RECURSIVE JsonItems(_, _, _)
\* json: the value that starts at i
JsonValue(s, i) ==
    IF i > Len(s) THEN ParseFail
    ELSE IF s[i] = "\"" THEN JsonString(s, i)
    ELSE IF s[i] = "["
         THEN LET j == SkipWs(s, i + 1)
              IN  IF j <= Len(s) /\ s[j] = "]" THEN Parsed(ListValue(<<>>), j + 1)
                  ELSE JsonItems(s, j, <<>>)
    ELSE ParseFail

\* json: the items of an array from i on, after the items in acc
JsonItems(s, i, acc) ==
    LET r == JsonValue(s, i)
        j == SkipWs(s, r.next)
    IN  IF ~r.ok \/ j > Len(s) THEN ParseFail
        ELSE IF s[j] = "]" THEN Parsed(ListValue(Append(acc, r.val)), j + 1)
        ELSE IF s[j] = "," THEN JsonItems(s, SkipWs(s, j + 1), Append(acc, r.val))
        ELSE ParseFail

\* json.loads(s): one value and nothing after it
JsonLoads(s) ==
    LET r == JsonValue(s, SkipWs(s, 1))
    IN  IF r.ok /\ SkipWs(s, r.next) = Len(s) + 1 THEN r ELSE ParseFail

\* Python: the string token that opens with the quote at i
PyString(s, i) ==
    LET q == s[i]
        triple == i + 2 <= Len(s) /\ s[i + 1] = q /\ s[i + 2] = q
        ends3 == {j \in (i + 3)..(Len(s) - 2) : s[j] = q /\ s[j + 1] = q /\ s[j + 2] = q}
        ends1 == {j \in (i + 1)..Len(s) : s[j] = q}
    IN  IF triple
        THEN IF ends3 = {} THEN ParseFail
             ELSE Parsed(StrValue(SubSeq(s, i + 3, Least(ends3) - 1)), Least(ends3) + 3)
        ELSE IF ends1 = {} THEN ParseFail
             ELSE Parsed(StrValue(SubSeq(s, i + 1, Least(ends1) - 1)), Least(ends1) + 1)

\* Python: adjacent string tokens from i on make one string
RECURSIVE PyStrings(_, _, _)
PyStrings(s, i, acc) ==
    LET r == PyString(s, i)
        j == SkipWs(s, r.next)
    IN  IF ~r.ok THEN ParseFail
        ELSE IF j <= Len(s) /\ s[j] \in QuoteChars THEN PyStrings(s, j, acc \o r.val.v)
        ELSE Parsed(StrValue(acc \o r.val.v), r.next)

RECURSIVE PyAtom(_, _)
RECURSIVE PyItems(_, _, _)
\* Python: the string or list display that starts at i
PyAtom(s, i) ==
    IF i > Len(s) THEN ParseFail
    ELSE IF s[i] \in QuoteChars THEN PyStrings(s, i, <<>>)
    ELSE IF s[i] = "["
         THEN LET j == SkipWs(s, i + 1)
              IN  IF j <= Len(s) /\ s[j] = "]" THEN Parsed(ListValue(<<>>), j + 1)
                  ELSE PyItems(s, j, <<>>)
    ELSE ParseFail

\* Python: the items of a list display from i on; a comma may end the list
PyItems(s, i, acc) ==
    LET r == PyAtom(s, i)
        j == SkipWs(s, r.next)
        k == SkipWs(s, j + 1)
    IN  IF ~r.ok \/ j > Len(s) THEN ParseFail
        ELSE IF s[j] = "]" THEN Parsed(ListValue(Append(acc, r.val)), j + 1)
        ELSE IF s[j] = ","
             THEN IF k <= Len(s) /\ s[k] = "]"
                  THEN Parsed(ListValue(Append(acc, r.val)), k + 1)
                  ELSE PyItems(s, k, Append(acc, r.val))
        ELSE ParseFail

\* ast.literal_eval(s) where it gives a string or a list: a tuple, a name or
\* a subscript is neither and has the caller go on
LiteralEval(s) ==
    LET r == PyAtom(s, SkipWs(s, 1))
    IN  IF r.ok /\ SkipWs(s, r.next) = Len(s) + 1 THEN r ELSE ParseFail

\* repr of a str
PyReprStr(chars) ==
    LET has(c) == \E i \in 1..Len(chars) : chars[i] = c
        q == IF has("'") /\ ~has("\"") THEN "\"" ELSE "'"
    IN  <<q>> \o Flatten([i \in 1..Len(chars) |->
                            IF chars[i] = q THEN <<"\\", q>> ELSE <<chars[i]>>]) \o <<q>>

RECURSIVE PyRepr(_)
RECURSIVE JoinReprs(_)
\* repr of a str or of a list
PyRepr(v) ==
    IF v.t = "str" THEN PyReprStr(v.v) ELSE <<"[">> \o JoinReprs(v.v) \o <<"]">>

JoinReprs(items) ==
    IF items = <<>> THEN <<>>
    ELSE IF Len(items) = 1 THEN PyRepr(items[1])
    ELSE PyRepr(items[1]) \o <<",", " ">> \o JoinReprs(Tail(items))

\* [clean_ws(t) for t in v if clean_ws(t)], clean_ws being on str(t)
CleanItems(v) ==
    SelectSeq([i \in 1..Len(v.v) |->
                  CleanWsText(IF v.v[i].t = "str" THEN v.v[i].v ELSE PyRepr(v.v[i]))],
              LAMBDA t : t # <<>>)

\* what ensure_list returns for a parsed list or str
ListOfValue(v) ==
    IF v.t = "list" THEN CleanItems(v)
    ELSE IF CleanWsText(v.v) # <<>> THEN <<CleanWsText(v.v)>> ELSE <<>>

\* re.split(r"[;,|]\s*|\s{2,}", s) from i on, cur being the piece read so far
RECURSIVE ReSplit(_, _, _)
ReSplit(s, i, cur) ==
    IF i > Len(s) THEN <<cur>>
    ELSE IF s[i] \in {";", ",", "|"} THEN <<cur>> \o ReSplit(s, SkipWs(s, i + 1), <<>>)
    ELSE IF IsWs(s[i]) /\ i < Len(s) /\ IsWs(s[i + 1])
         THEN <<cur>> \o ReSplit(s, SkipWs(s, i), <<>>)
    ELSE ReSplit(s, i + 1, Append(cur, s[i]))

\* [clean_ws(p) for p in parts if clean_ws(p)]
CleanParts(parts) ==
    SelectSeq([i \in 1..Len(parts) |-> CleanWsText(parts[i])], LAMBDA t : t # <<>>)

\* ensure_list(x)
EnsureList(x) ==
    LET s == CleanWsText(x)
    IN  IF x = NULL THEN <<>>
        ELSE IF s = <<>> \/ Lower(s) \in Sentinels THEN <<>>
        ELSE IF JsonLoads(s).ok THEN ListOfValue(JsonLoads(s).val)
        ELSE IF LiteralEval(s).ok THEN ListOfValue(LiteralEval(s).val)
        ELSE CleanParts(ReSplit(s, 1, <<>>))

MaxCellLen == 5

\* cells with the other separators and the missing-value spellings
OtherCells ==
    {NULL, <<"a", ";", "a">>, <<"a", "|", " ", "a">>, <<"a", ";", "|", "a">>,
     <<"<", "N", "A", ">">>, <<"N", "A">>, <<"n", "a", "n">>, <<"N", "a", "N">>,
     <<"N", "o", "n", "e">>, <<"n", "o", "n", "e">>, <<" ", "N", "A", " ">>}

Cells == SeqsUpTo(CellChars, MaxCellLen) \cup OtherCells

InitCell ==
    /\ MintIdle /\ ExportIdle /\ AppIdle /\ KgIdle
    /\ fIn \in [cell : Cells]
    /\ fOut = <<>>

CallEnsureList ==
    /\ fOut = <<>>
    /\ fOut' = <<EnsureList(fIn.cell)>>
    /\ UNCHANGED <<fIn, exceptFun>>

CellNext == CallEnsureList

SpecCell == InitCell /\ [][CellNext]_vars

\* the three strategies in their order on the cell as it is: a JSON list
\* literal, a Python list literal, splitting on ; , | or two or more spaces;
\* every element whitespace-normalized, empty elements removed
FirstStrategyThatApplies(x) ==
    IF JsonLoads(x).ok /\ JsonLoads(x).val.t = "list" THEN CleanItems(JsonLoads(x).val)
    ELSE IF LiteralEval(x).ok /\ LiteralEval(x).val.t = "list"
         THEN CleanItems(LiteralEval(x).val)
    ELSE CleanParts(ReSplit(x, 1, <<>>))

\* the cell is None, blank or a missing-value sentinel in any case
IsMissing(x) == x = NULL \/ CleanWsText(x) = <<>> \/ Lower(CleanWsText(x)) \in Sentinels

\* C17: ensure_list returns (so does not raise) the empty list for a blank
\* cell or a missing-value sentinel, and otherwise the whitespace-normalized,
\* non-empty elements that the first applicable strategy gives: JSON list
\* literal, Python list literal, splitting on ; , | or runs of two or more
\* spaces.
C17_FirstStrategyInOrder ==
    fOut # <<>> =>
        fOut[1] = IF IsMissing(fIn.cell) THEN <<>> ELSE FirstStrategyThatApplies(fIn.cell)

\* ------------------------------------------------------------------ SpecLoad
\* Reading the input table of a tool: detect_delimiter, then the table
\* reader.  A file is a sequence of bytes, named by their hexadecimal value:
\* 41 "A", 2C ",", D0 the lead byte of a two-byte UTF-8 sequence, 98 and 81
\* continuation bytes; cp1251 has no character for 98, cp1252 none for 81.
FileBytes == {"41", "2C", "D0", "98", "81"}
AsciiBytes == {"41", "2C"}
ContinuationBytes == {"98", "81"}
MaxFileLen == 3

\* bytes.decode("utf-8") does not raise
RECURSIVE Utf8Decodes(_)
Utf8Decodes(b) ==
    IF b = <<>> THEN TRUE
    ELSE IF Head(b) \in AsciiBytes THEN Utf8Decodes(Tail(b))
    ELSE IF Head(b) = "D0" /\ Len(b) >= 2 /\ b[2] \in ContinuationBytes
         THEN Utf8Decodes(Tail(Tail(b)))
    ELSE FALSE

\* bytes.decode(enc) does not raise; "utf-8-replace" is UTF-8 with errors="replace"
Decodes(enc, b) ==
    CASE enc \in {"utf-8-sig", "utf-8"} -> Utf8Decodes(b)
      [] enc = "cp1251" -> \A i \in 1..Len(b) : b[i] # "98"
      [] enc = "cp1252" -> \A i \in 1..Len(b) : b[i] # "81"
      [] enc = "latin-1" -> TRUE
      [] enc = "utf-8-replace" -> TRUE

EncodingOrder == <<"utf-8-sig", "utf-8", "cp1251", "cp1252", "latin-1">>

\* the loop over the encodings: the first that decodes, else the lossy UTF-8
FallbackEncoding(b) ==
    LET fit == SelectSeq(EncodingOrder, LAMBDA enc : Decodes(enc, b))
    IN  IF fit # <<>> THEN fit[1] ELSE "utf-8-replace"

Loaded(enc) == [st |-> "ok", enc |-> enc]
LoadRaised(error) == [st |-> error, enc |-> ""]

\* build_kg / export_agents / volume: detect_delimiter over read_sample_text;
\* whatever the sniffer raises is caught
DetectDelimiter(b) == Loaded(FallbackEncoding(b))

\* build_kg / export_agents / volume: read_csv_fallback; pandas refuses a
\* file with no header line whatever the encoding
ReadCsvFallback(b) ==
    IF b = <<>> THEN LoadRaised("EmptyDataError") ELSE Loaded(FallbackEncoding(b))

\* export_atu_types.detect_delimiter: path.read_text(encoding="utf-8")
AtuDetectDelimiter(b) ==
    IF Utf8Decodes(b) THEN Loaded("utf-8") ELSE LoadRaised("UnicodeDecodeError")

\* export_atu_types.main: pd.read_csv without an encoding, that is UTF-8
AtuReadCsv(b) ==
    IF ~Utf8Decodes(b) THEN LoadRaised("UnicodeDecodeError")
    ELSE IF b = <<>> THEN LoadRaised("EmptyDataError")
    ELSE Loaded("utf-8")

Tools == {"build_kg", "export_agents", "volume", "export_atu_types"}

\* main of a tool from detect_delimiter to the table: what the first failing
\* call raised, else the table read
LoadInput(tool, b) ==
    IF tool = "export_atu_types"
    THEN IF AtuDetectDelimiter(b).st # "ok" THEN AtuDetectDelimiter(b) ELSE AtuReadCsv(b)
    ELSE IF DetectDelimiter(b).st # "ok" THEN DetectDelimiter(b) ELSE ReadCsvFallback(b)

InitLoad ==
    /\ MintIdle /\ ExportIdle /\ AppIdle /\ KgIdle
    /\ fIn \in [tool : Tools, bytes : SeqsUpTo(FileBytes, MaxFileLen)]
    /\ fOut = <<>>

CallLoadInput ==
    /\ fOut = <<>>
    /\ fOut' = <<LoadInput(fIn.tool, fIn.bytes)>>
    /\ UNCHANGED <<fIn, exceptFun>>

LoadNext == CallLoadInput

SpecLoad == InitLoad /\ [][LoadNext]_vars

\* C18: whatever the bytes of the input file, no tool's delimiter detection
\* or table reading raises a decoding error: each falls through the encoding
\* list to an encoding that decodes.
C18_NoDecodeErrorOnLoad ==
    fOut # <<>> =>
        /\ fOut[1].st # "UnicodeDecodeError"
        /\ fOut[1].st = "ok" => Decodes(fOut[1].enc, fIn.bytes)

\* ------------------------------------------------------------------ SpecAgents
\* rdf/export_agents.build_agents_graph over a table that has the narrator id
\* and label columns and the two collector columns (the other narrator
\* columns are absent, so their fields are empty).  A collector cell is
\* modelled by the list ensure_list gives for it; "cyr_Bo" stands for a name
\* in Cyrillic letters.
LangLiteral(text, lang) ==
    [kind |-> CASE lang = "en" -> "literal@en"
                [] lang = "et" -> "literal@et"
                [] lang = "ru" -> "literal@ru"
                [] OTHER -> "literal",
     id |-> text]

\* export_agents.guess_lang
GuessLang(text) == IF text = "" THEN "" ELSE IF text = "cyr_Bo" THEN "ru" ELSE "et"

\* export_agents.extract_narrator_fields
ExtractNarratorFields(row) ==
    [label_en |-> CleanWsCell(row.narrator_label_en),
     birth_year |-> "", age |-> "", note_raw |-> "", name_raw |-> ""]

\* export_agents.extract_collectors, one of the two lists
CleanList(cell) ==
    SelectSeq([i \in 1..Len(cell) |-> CleanWsCell(cell[i])], LAMBDA x : x # "")

\* what the loop over the rows has collected
NoAgents ==
    [narrator_ids |-> {}, collector_ids |-> {}, narrator_meta |-> <<>>,
     collector_labels_by_id |-> <<>>]

\* build_agents_graph, one pass of the loop over the rows
ScanRow(acc, row) ==
    LET nid == CleanWsCell(row.narrator_person_id)
        meta == ExtractNarratorFields(row)
        old == acc.narrator_meta
        cids == CleanList(row.collector_person_ids_str)
        clabels == CleanList(row.collectors_norm)
        cidset == {cids[i] : i \in 1..Len(cids)}
        before(cid) == Get(acc.collector_labels_by_id, cid, {})
        added(cid) ==
            IF cids = <<>> \/ clabels = <<>> THEN {}
            ELSE IF Len(cids) = Len(clabels)
                 THEN {clabels[i] : i \in {j \in 1..Len(cids) : cids[j] = cid}}
            ELSE {clabels[i] : i \in 1..Len(clabels)}
    IN  [narrator_ids |-> IF nid # "" THEN acc.narrator_ids \cup {nid} ELSE acc.narrator_ids,
         collector_ids |-> acc.collector_ids \cup cidset,
         narrator_meta |->
             IF nid = "" THEN old
             ELSE IF nid \notin DOMAIN old THEN (nid :> meta) @@ old
             ELSE (nid :> [k \in DOMAIN meta |->
                              IF meta[k] # "" /\ old[nid][k] = "" THEN meta[k]
                              ELSE old[nid][k]]) @@ old,
         collector_labels_by_id |->
             [cid \in cidset |-> before(cid) \cup added(cid)] @@ acc.collector_labels_by_id]

RECURSIVE ScanRows(_, _)
ScanRows(acc, rows) ==
    IF rows = <<>> THEN acc ELSE ScanRows(ScanRow(acc, Head(rows)), Tail(rows))

\* build_agents_graph, the triples of one person
PersonTriples(pid, found) ==
    LET p_uri == Person(pid)
        lab_en == IF pid \in DOMAIN found.narrator_meta
                  THEN found.narrator_meta[pid].label_en ELSE ""
        labs == IF pid \in found.collector_ids
                THEN Get(found.collector_labels_by_id, pid, {}) ELSE {}
        labels == (IF lab_en # "" THEN {LangLiteral(lab_en, "en")} ELSE {})
                  \cup {LangLiteral(lab, GuessLang(lab)) : lab \in labs}
    IN  {<<p_uri, "rdf:type", Class("prov:Agent")>>,
         <<p_uri, "rdf:type", Class("crm:E21_Person")>>,
         <<p_uri, "rdf:type", Class("foaf:Person")>>}
        \cup (IF pid \in found.narrator_ids
              THEN {<<p_uri, "rdf:type", Class("rft:Narrator")>>} ELSE {})
        \cup (IF pid \in found.collector_ids
              THEN {<<p_uri, "rdf:type", Class("rft:Collector")>>} ELSE {})
        \cup {<<p_uri, "rdfs:label", l>> : l \in labels}
        \cup (IF labels = {} THEN {<<p_uri, "rdfs:label", LangLiteral(pid, "")>>} ELSE {})

\* export_agents.build_agents_graph
BuildAgentsGraph(rows) ==
    LET found == ScanRows(NoAgents, rows)
    IN  UNION {PersonTriples(pid, found) : pid \in found.narrator_ids \cup found.collector_ids}

AgentRows ==
    [narrator_person_id : {"", "P1"},
     narrator_label_en : {"", "Ann", "Anna"},
     collector_person_ids_str : {<<>>, <<"P1">>, <<"P1", "P2">>},
     collectors_norm : {<<>>, <<"Ann">>, <<"Bo", "cyr_Bo">>}]

InitAgents ==
    /\ MintIdle /\ ExportIdle /\ AppIdle /\ KgIdle
    /\ fIn \in [rows : SeqsUpTo(AgentRows, MaxRows)]
    /\ fOut = <<>>

CallBuildAgentsGraph ==
    /\ fOut = <<>>
    /\ fOut' = <<BuildAgentsGraph(fIn.rows)>>
    /\ UNCHANGED <<fIn, exceptFun>>

AgentsNext == CallBuildAgentsGraph

SpecAgents == InitAgents /\ [][AgentsNext]_vars

\* the person ids the rows name, as narrator and as collector
NarratorIdsOfRows == {fIn.rows[i].narrator_person_id : i \in 1..Len(fIn.rows)} \ {""}

CollectorIdsOfRows ==
    UNION {{fIn.rows[i].collector_person_ids_str[j] :
               j \in 1..Len(fIn.rows[i].collector_person_ids_str)} : i \in 1..Len(fIn.rows)}

PersonNodes ==
    {t[1] : t \in {u \in fOut[1] : u[2] = "rdf:type" /\ u[3] = Class("foaf:Person")}}

LabelsOfPerson(pid) ==
    {t[3].id : t \in {u \in fOut[1] : u[1] = Person(pid) /\ u[2] = "rdfs:label"}}

RolesOfPerson(pid) ==
    {t[3].id : t \in {u \in fOut[1] : u[1] = Person(pid) /\ u[2] = "rdf:type"}}

\* C19: one Person node per distinct person id; the node carries the label of
\* every row that names the person, as narrator or as collector, with a
\* non-empty label; a person who is narrator in one row and collector in
\* another has both role types.
C19_PersonLabelsAccumulate ==
    fOut # <<>> =>
        /\ PersonNodes = {Person(pid) : pid \in NarratorIdsOfRows \cup CollectorIdsOfRows}
        /\ \A i \in 1..Len(fIn.rows) :
               LET row == fIn.rows[i]
                   cids == row.collector_person_ids_str
                   clabels == row.collectors_norm
               IN  /\ (row.narrator_person_id # "" /\ row.narrator_label_en # "") =>
                          row.narrator_label_en \in LabelsOfPerson(row.narrator_person_id)
                   /\ Len(cids) = Len(clabels) =>
                          \A j \in 1..Len(cids) : clabels[j] \in LabelsOfPerson(cids[j])
        /\ \A pid \in NarratorIdsOfRows \cap CollectorIdsOfRows :
               {"rft:Narrator", "rft:Collector"} \subseteq RolesOfPerson(pid)

\* ------------------------------------------------------------------ SpecQuality
\* rdf/quality/kg_quality_log.main from the parsed graph to the metrics.  A
\* graph is a set of triples; a node is an IRI unless it is a blank node or a
\* literal.  A percentage is an integer in hundredths of a percent (10000 is
\* 100.0).
BNode(name) == [kind |-> "bnode", id |-> name]
DateLiteral(text) == [kind |-> "literal^^xsd:date", id |-> text]
Page(url) == [kind |-> "page", id |-> url]
Concept(code) == [kind |-> "concept", id |-> code]

\* isinstance(x, URIRef)
IsUriRef(x) == x.kind \notin {"bnode", "literal", "literal@en", "literal@et", "literal@ru",
                              "literal^^xsd:date"}

\* kg_quality_log.percent: round(part / whole * 100.0, 2), ties to the even digit
Percent(part, whole) ==
    IF whole = 0 THEN 0
    ELSE LET q == (part * 10000) \div whole
             r == (part * 10000) % whole
         IN  IF 2 * r < whole THEN q
             ELSE IF 2 * r > whole THEN q + 1
             ELSE IF q % 2 = 0 THEN q ELSE q + 1

\* kg_quality_log.subjects_of_type
SubjectsOfType(g, class) ==
    {t[1] : t \in {u \in g : u[2] = "rdf:type" /\ u[3] = class /\ IsUriRef(u[1])}}

TalesOf(g) == SubjectsOfType(g, Class("crm:E33_Linguistic_Object"))
VolumeSubjects(g) == SubjectsOfType(g, Class("dcterms:BibliographicResource"))
CollectionsOf(g) == SubjectsOfType(g, Class("dcmitype:Collection"))

\* the subjects of predicate p, whatever their type
SubjectsWith(g, p) == {t[1] : t \in {u \in g : u[2] = p}}

\* the count without "if s in tales"
TalesWithAnySubject(g, p) == SubjectsWith(g, p)

\* len({s for s, _, _ in g.triples((None, p, None)) if s in tales})
TalesWith(g, p) == SubjectsWith(g, p) \cap TalesOf(g)

\* the same with "and isinstance(o, URIRef)"
TalesWithIri(g, p) == {t[1] : t \in {u \in g : u[2] = p /\ IsUriRef(u[3])}} \cap TalesOf(g)

\* kg_quality_log.has_any_predicate
HasAnyPredicate(g, node, preds) == \E t \in g : t[1] = node /\ t[2] \in preds

\* kg_quality_log.objects_iris
ObjectsIris(g, node, p) == {t[3] : t \in {u \in g : u[1] = node /\ u[2] = p /\ IsUriRef(u[3])}}

TaleRightsPreds == {"dcterms:accessRights", "dcterms:rights"}
TaleSourcePreds == {"dcterms:source", "dcterms:bibliographicCitation"}
VolSourcePreds == {"foaf:page", "dcterms:source", "rdfs:seeAlso"}

\* a tale has a source of its own, or is part of something that has one
TalesCompleteSource(g) ==
    {t \in TalesOf(g) :
        \/ HasAnyPredicate(g, t, TaleSourcePreds)
        \/ \E v \in ObjectsIris(g, t, "dcterms:isPartOf") : HasAnyPredicate(g, v, VolSourcePreds)}

CollectionsLabelLangOk(g) ==
    {c \in CollectionsOf(g) :
        \E t \in g : /\ t[1] = c
                     /\ t[2] = "rdfs:label"
                     /\ t[3].kind \in {"literal@en", "literal@et", "literal@ru"}}

MetricNames ==
    {"coverage.tales_with_isPartOf_volume", "coverage.tales_with_atu_subject",
     "coverage.tales_with_created", "coverage.tales_with_accessRights",
     "coverage.tales_with_rights", "coverage.tales_with_contributor_narrator",
     "coverage.tales_with_spatial", "coverage.collections_with_label_langtag",
     "completeness.tales_with_rights", "completeness.tales_with_source",
     "completeness.tales_with_place", "completeness.tales_with_date",
     "completeness.volumes_with_source",
     "volume_source_breakdown.volumes_with_foaf_page",
     "volume_source_breakdown.volumes_with_dct_source",
     "volume_source_breakdown.volumes_with_rdfs_seeAlso"}

\* the entities a metric counts
Counted(name, g) ==
    CASE name = "coverage.tales_with_isPartOf_volume" -> TalesWith(g, "dcterms:isPartOf")
      [] name = "coverage.tales_with_atu_subject" -> TalesWithIri(g, "dcterms:subject")
      [] name = "coverage.tales_with_created" -> TalesWith(g, "dcterms:created")
      [] name = "coverage.tales_with_accessRights" -> TalesWith(g, "dcterms:accessRights")
      [] name = "coverage.tales_with_rights" -> TalesWith(g, "dcterms:rights")
      [] name = "coverage.tales_with_contributor_narrator" ->
             TalesWithIri(g, "dcterms:contributor")
      [] name = "coverage.tales_with_spatial" -> TalesWith(g, "dcterms:spatial")
      [] name = "coverage.collections_with_label_langtag" -> CollectionsLabelLangOk(g)
      [] name = "completeness.tales_with_rights" ->
             {t \in TalesOf(g) : HasAnyPredicate(g, t, TaleRightsPreds)}
      [] name = "completeness.tales_with_source" -> TalesCompleteSource(g)
      [] name = "completeness.tales_with_place" ->
             {t \in TalesOf(g) : HasAnyPredicate(g, t, {"dcterms:spatial"})}
      [] name = "completeness.tales_with_date" ->
             {t \in TalesOf(g) : HasAnyPredicate(g, t, {"dcterms:created"})}
      [] name = "completeness.volumes_with_source" ->
             {v \in VolumeSubjects(g) : HasAnyPredicate(g, v, VolSourcePreds)}
      [] name = "volume_source_breakdown.volumes_with_foaf_page" ->
             {v \in VolumeSubjects(g) : HasAnyPredicate(g, v, {"foaf:page"})}
      [] name = "volume_source_breakdown.volumes_with_dct_source" ->
             {v \in VolumeSubjects(g) : HasAnyPredicate(g, v, {"dcterms:source"})}
      [] name = "volume_source_breakdown.volumes_with_rdfs_seeAlso" ->
             {v \in VolumeSubjects(g) : HasAnyPredicate(g, v, {"rdfs:seeAlso"})}

\* the number of entities a metric's percentage is taken of
WholeOf(name, g) ==
    IF name = "coverage.collections_with_label_langtag" THEN Cardinality(CollectionsOf(g))
    ELSE IF name \in {"completeness.volumes_with_source",
                      "volume_source_breakdown.volumes_with_foaf_page",
                      "volume_source_breakdown.volumes_with_dct_source",
                      "volume_source_breakdown.volumes_with_rdfs_seeAlso"}
         THEN Cardinality(VolumeSubjects(g))
    ELSE Cardinality(TalesOf(g))

\* the coverage, completeness and volume_source_breakdown sections of metrics
Metrics(g) ==
    [name \in MetricNames |->
        [count |-> Cardinality(Counted(name, g)),
         percent |-> Percent(Cardinality(Counted(name, g)), WholeOf(name, g))]]

\* the triples a graph is drawn from
TripleUniverse ==
    {<<Tale("T1"), "rdf:type", Class("crm:E33_Linguistic_Object")>>,
     <<Tale("T2"), "rdf:type", Class("crm:E33_Linguistic_Object")>>,
     <<Tale("T3"), "rdf:type", Class("crm:E33_Linguistic_Object")>>,
     <<BNode("b1"), "rdf:type", Class("crm:E33_Linguistic_Object")>>,
     <<Volume("V1"), "rdf:type", Class("dcterms:BibliographicResource")>>,
     <<Collection("era-vene"), "rdf:type", Class("dcmitype:Collection")>>,
     <<Tale("T1"), "dcterms:isPartOf", Volume("V1")>>,
     <<Tale("T2"), "dcterms:isPartOf", Volume("V1")>>,
     <<Tale("T1"), "dcterms:isPartOf", DatasetIri>>,
     <<Volume("V1"), "dcterms:isPartOf", Collection("era-vene")>>,
     <<Tale("T1"), "dcterms:subject", Concept("510A")>>,
     <<Tale("T2"), "dcterms:subject", Literal("510A")>>,
     <<Tale("T1"), "dcterms:created", DateLiteral("1890-01-01")>>,
     <<Volume("V1"), "dcterms:created", Literal("1890")>>,
     <<Tale("T1"), "dcterms:accessRights", Literal("open")>>,
     <<Tale("T1"), "dcterms:rights", Literal("open")>>,
     <<Tale("T1"), "dcterms:contributor", Person("P1")>>,
     <<Tale("T1"), "dcterms:spatial", BNode("b2")>>,
     <<Tale("T1"), "dcterms:bibliographicCitation", Literal("ERA, Vene 1, 5/6")>>,
     <<Volume("V1"), "foaf:page", Page("kivike")>>,
     <<Volume("V1"), "rdfs:seeAlso", Page("kivike")>>,
     <<DatasetIri, "dcterms:source", Page("corpus_a_for_kg.csv")>>,
     <<Collection("era-vene"), "rdfs:label", LangLiteral("ERA Vene", "et")>>,
     <<Collection("era-vene"), "rdfs:label", Literal("era_vene")>>}

MaxTriples == 3

RECURSIVE SubsetsUpTo(_, _)
SubsetsUpTo(U, n) ==
    IF n = 0 THEN {{}}
    ELSE LET smaller == SubsetsUpTo(U, n - 1)
         IN  smaller \cup {S \cup {x} : S \in smaller, x \in U}

InitQuality ==
    /\ MintIdle /\ ExportIdle /\ AppIdle /\ KgIdle
    /\ fIn \in [graph : SubsetsUpTo(TripleUniverse, MaxTriples)]
    /\ fOut = <<>>

CallQualityLog ==
    /\ fOut = <<>>
    /\ fOut' = <<Metrics(fIn.graph)>>
    /\ UNCHANGED <<fIn, exceptFun>>

QualityNext == CallQualityLog

SpecQuality == InitQuality /\ [][QualityNext]_vars

\* C20: every percentage of the report is between 0 and 100, a metric over no
\* entity of its type reports 0, and no count exceeds the number of entities
\* its percentage is taken of.
C20_PercentWithinBounds ==
    fOut # <<>> =>
        \A name \in MetricNames :
            /\ fOut[1][name].percent \in 0..10000
            /\ fOut[1][name].count \in 0..WholeOf(name, fIn.graph)
            /\ WholeOf(name, fIn.graph) = 0 => fOut[1][name].percent = 0

\* a graph with a dated volume and no tale: the tale metrics are over zero
\* entities while another metric is at 100
C20_ZeroTalesAndFullVolumes ==
    /\ fOut # <<>>
    /\ TalesOf(fIn.graph) = {}
    /\ SubjectsWith(fIn.graph, "dcterms:created") # {}
    /\ fOut[1]["coverage.tales_with_created"].percent = 0
    /\ fOut[1]["completeness.volumes_with_source"].percent = 10000

\* the tales that have a source by the rule as the report words it: a source
\* or citation of their own, or a parent volume (a node minted as a volume,
\* typed or not) with a page, source or seeAlso
TalesWithDirectOrVolumeSource(g) ==
    {t \in TalesOf(g) :
        \/ HasAnyPredicate(g, t, TaleSourcePreds)
        \/ \E v \in ObjectsIris(g, t, "dcterms:isPartOf") :
               /\ v.kind = "volume"
               /\ HasAnyPredicate(g, v, VolSourcePreds)}

\* C21: completeness.tales_with_source counts, once each, exactly the tales
\* that carry dcterms:source or dcterms:bibliographicCitation themselves or
\* are part of a volume that carries foaf:page, dcterms:source or rdfs:seeAlso.
C21_SourceDirectOrFromVolume ==
    fOut # <<>> =>
        fOut[1]["completeness.tales_with_source"].count
            = Cardinality(TalesWithDirectOrVolumeSource(fIn.graph))

\* ---------------------------------------------------------------------
\* The validation gate (rdf/validation/validate_kg.py): one run of main,
\* step by step.  fIn is the environment of the run, fOut the state of the
\* run once it has started.  The report paths are taken to be writable, as
\* the output paths of the other tools are.
\* ---------------------------------------------------------------------

\* what pyshacl's validate hands back: a conforming graph, a graph with
\* violations, or an exception of the engine
ValidatorOutcomes == {"conforms", "violations", "raises"}

ValidateEnvs ==
    [data_exists : BOOLEAN, shapes_exists : BOOLEAN,
     validator : ValidatorOutcomes,
     report_before : {"absent", "old"},
     report_text_before : {"absent", "old"}]

\* an uncaught exception ends the interpreter with status 1
Traceback(run, error) ==
    [run EXCEPT !.pc = "exited", !.error = error, !.exit = 1]

ExitCodeZero(conforms) == 0

\* return 0 if conforms else 1
ExitCode(conforms) == IF conforms THEN 0 ELSE 1

InitValidate ==
    /\ MintIdle /\ ExportIdle /\ AppIdle /\ KgIdle
    /\ fIn \in ValidateEnvs
    /\ fOut = <<>>

\* the two existence checks and the creation of the report directories
ValidateCheckPaths ==
    /\ fOut = <<>>
    /\ LET run == [pc |-> "validate", error |-> "", conforms |-> "unknown",
                   report |-> fIn.report_before,
                   report_text |-> fIn.report_text_before, exit |-> -1]
       IN  fOut' = <<IF ~fIn.data_exists \/ ~fIn.shapes_exists
                     THEN Traceback(run, "FileNotFoundError")
                     ELSE run>>
    /\ UNCHANGED <<fIn, exceptFun>>

\* the call of the external validator
ValidateCall ==
    /\ fOut # <<>> /\ fOut[1].pc = "validate"
    /\ fOut' = <<IF fIn.validator = "raises"
                 THEN Traceback(fOut[1], "ValidatorError")
                 ELSE [fOut[1] EXCEPT
                          !.pc = "report",
                          !.conforms = IF fIn.validator = "conforms"
                                       THEN "yes" ELSE "no"]>>
    /\ UNCHANGED <<fIn, exceptFun>>

\* report_graph.serialize(destination=report_path)
ValidateWriteReport ==
    /\ fOut # <<>> /\ fOut[1].pc = "report"
    /\ fOut' = <<[fOut[1] EXCEPT !.pc = "report_text", !.report = "new"]>>
    /\ UNCHANGED <<fIn, exceptFun>>

\* report_text_path.write_text(report_text)
ValidateWriteReportText ==
    /\ fOut # <<>> /\ fOut[1].pc = "report_text"
    /\ fOut' = <<[fOut[1] EXCEPT !.pc = "return", !.report_text = "new"]>>
    /\ UNCHANGED <<fIn, exceptFun>>

\* the three prints and the return
ValidateReturn ==
    /\ fOut # <<>> /\ fOut[1].pc = "return"
    /\ fOut' = <<[fOut[1] EXCEPT
                     !.pc = "exited",
                     !.exit = ExitCode(fOut[1].conforms = "yes")]>>
    /\ UNCHANGED <<fIn, exceptFun>>

ValidateNext ==
    \/ ValidateCheckPaths
    \/ ValidateCall
    \/ ValidateWriteReport
    \/ ValidateWriteReportText
    \/ ValidateReturn

SpecValidate == InitValidate /\ [][ValidateNext]_vars

ValidateExited == fOut # <<>> /\ fOut[1].pc = "exited"

\* C22: the run ends with status 0 exactly when the validator reported that
\* the graph conforms, with a nonzero status when it reported violations,
\* and whenever main returns a status after either report of the validator
\* both report files of this run are on disk.
C22_ExitMirrorsConforms ==
    ValidateExited =>
        /\ fOut[1].exit = 0 <=> fOut[1].conforms = "yes"
        /\ fOut[1].conforms = "no" => fOut[1].exit # 0
        /\ fOut[1].error = "" =>
               /\ fOut[1].conforms \in {"yes", "no"}
               /\ fOut[1].report = "new"
               /\ fOut[1].report_text = "new"

\* a run over a graph with violations: both reports replaced, status 1
C22_ViolationsReported ==
    /\ ValidateExited
    /\ fIn.validator = "violations"
    /\ fIn.report_before = "old" /\ fIn.report_text_before = "absent"
    /\ fOut[1].error = ""
    /\ fOut[1].report = "new" /\ fOut[1].report_text = "new"
    /\ fOut[1].exit = 1

\* ---------------------------------------------------------------------
\* The Turtle to JSON-LD converter (rdf/export_jsonld.py).
\* A JSON value is [dict |-> function from keys], [list |-> sequence] or
\* [str |-> text].
\* ---------------------------------------------------------------------

JDict(items) == [dict |-> items]
JList(items) == [list |-> items]
JStr(text) == [str |-> text]

IsDict(value) == DOMAIN value = {"dict"}
IsList(value) == DOMAIN value = {"list"}

TypeError == JStr("TypeError")

WrapWithContext(data, ctx, as_graph) ==
    IF as_graph
    THEN IF ~IsDict(data) /\ ~IsList(data) THEN TypeError
         ELSE LET graph_items ==
                      IF IsDict(data)
                      THEN IF /\ "@graph" \in DOMAIN data.dict
                              /\ IsList(data.dict["@graph"])
                           THEN data.dict["@graph"].list
                           ELSE <<data>>
                      ELSE data.list
              IN  JDict(("@context" :> ctx) @@ ("@graph" :> JList(graph_items)))
    ELSE IF IsDict(data) THEN JDict(("@context" :> ctx) @@ data.dict)
    ELSE IF IsList(data) THEN JDict(("@context" :> ctx) @@ ("@graph" :> data))
    ELSE TypeError

\* node objects as the serializer writes them
NodeObjects ==
    {JDict(("@id" :> JStr(id)) @@ ("dcterms:title" :> JStr(title))) :
         id \in {"ex:a", "ex:b"}, title \in {"t"}}

\* the contexts the serializer itself may attach, and the injected ones
Contexts ==
    {JDict("dcterms" :> JStr("http://purl.org/dc/terms/")),
     JDict("@vocab" :> JStr("http://example.org/")),
     JList(<<JStr("https://example.org/context.jsonld")>>)}

NodeLists == {JList(s) : s \in SeqsUpTo(NodeObjects, 2)}

\* what json.loads of the serializer's text can be: an expanded list, one
\* node object (with or without the serializer's own context), an object
\* with "@graph", an object whose "@graph" is not a list, another value
JsonLdValues ==
    NodeLists
    \cup NodeObjects
    \cup {JDict(("@context" :> c) @@ n.dict) : c \in Contexts, n \in NodeObjects}
    \cup {JDict("@graph" :> l) : l \in NodeLists}
    \cup {JDict(("@context" :> c) @@ ("@graph" :> l)) :
              c \in Contexts, l \in NodeLists}
    \cup {JDict(("@id" :> JStr("ex:g")) @@ ("@graph" :> n)) : n \in NodeObjects}
    \cup {JStr("x")}

InitWrap ==
    /\ MintIdle /\ ExportIdle /\ AppIdle /\ KgIdle
    /\ fIn \in [data : JsonLdValues, ctx : Contexts, as_graph : BOOLEAN]
    /\ fOut = <<>>

CallWrapWithContext ==
    /\ fOut = <<>>
    /\ fOut' = <<WrapWithContext(fIn.data, fIn.ctx, fIn.as_graph)>>
    /\ UNCHANGED <<fIn, exceptFun>>

WrapNext == CallWrapWithContext

SpecWrap == InitWrap /\ [][WrapNext]_vars

\* the result is the two-key wrapper around a list
IsGraphWrapper(value) ==
    /\ IsDict(value)
    /\ DOMAIN value.dict = {"@context", "@graph"}
    /\ IsList(value.dict["@graph"])

\* C23: for an object or a list from the serializer the result carries the
\* given context; with as_graph=True it is the {"@context", "@graph": [...]}
\* wrapper, and with as_graph=False it is an object to which no "@graph" was
\* added: it has "@graph" only if the serializer's object had it.
C23_CallerChoosesShape ==
    (fOut # <<>> /\ (IsDict(fIn.data) \/ IsList(fIn.data))) =>
        /\ IsDict(fOut[1])
        /\ fOut[1].dict["@context"] = fIn.ctx
        /\ fIn.as_graph => IsGraphWrapper(fOut[1])
        /\ ~fIn.as_graph =>
               ("@graph" \in DOMAIN fOut[1].dict =>
                    IsDict(fIn.data) /\ "@graph" \in DOMAIN fIn.data.dict)

\* ---------------------------------------------------------------------
\* export_one: Turtle file -> graph -> JSON-LD of the serializer ->
\* wrap_with_context -> written document.  An IRI is a string, a Turtle
\* file is its prefix declarations and its triples; the serializer and the
\* JSON-LD reader are the RDF library's, modelled on graphs whose objects
\* are IRIs.
\* ---------------------------------------------------------------------

MaxTurtleTriples == 2

Namespaces == {"http://a/", "http://b/"}
PrefixNames == {"a", "b"}
LocalNames == {"x"}

Iris == {ns \o l : ns \in Namespaces, l \in LocalNames}

\* prefix -> namespace maps over some of the prefix names
PrefixMaps ==
    UNION {[names -> Namespaces] : names \in SUBSET PrefixNames}

\* the library binds some prefixes in every new graph
DefaultBindings == "rdf" :> "http://www.w3.org/1999/02/22-rdf-syntax-ns#"

TurtleFiles ==
    [prefixes : {m \in PrefixMaps :
                    \A p, q \in DOMAIN m : m[p] = m[q] => p = q},
     triples : SubsetsUpTo(Iris \X Iris \X Iris, MaxTurtleTriples)]

\* g.parse(ttl_path, format="turtle")
ParseTurtle(file) ==
    [namespaces |-> file.prefixes @@ DefaultBindings,
     triples |-> file.triples]

\* prefix:local when a bound namespace starts the IRI, else the IRI
ShrinkIri(iri, namespaces) ==
    LET hits == {<<p, l>> \in (DOMAIN namespaces) \X LocalNames :
                     namespaces[p] \o l = iri}
    IN  IF hits = {} THEN iri
        ELSE LET h == CHOOSE h \in hits : TRUE IN h[1] \o ":" \o h[2]

\* a compact IRI whose prefix the context defines is expanded; any other
\* text with a colon is an IRI as it stands
ExpandIri(token, context) ==
    LET hits == {<<p, l>> \in (DOMAIN context) \X LocalNames :
                     p \o ":" \o l = token}
    IN  IF hits = {} THEN token
        ELSE LET h == CHOOSE h \in hits : TRUE IN context[h[1]] \o h[2]

RECURSIVE SetToSeq(_)
SetToSeq(S) ==
    IF S = {} THEN <<>>
    ELSE LET x == CHOOSE x \in S : TRUE IN <<x>> \o SetToSeq(S \ {x})

ContextData(namespaces) == JDict([p \in DOMAIN namespaces |-> JStr(namespaces[p])])

\* one node object: "@id" and one key per predicate; the compacted form
\* writes a single value bare, the expanded form always as a list
NodeObject(g, s, compact) ==
    LET name(iri) == IF compact THEN ShrinkIri(iri, g.namespaces) ELSE iri
        preds == {t[2] : t \in {u \in g.triples : u[1] = s}}
        values(p) == SetToSeq({JDict("@id" :> JStr(name(t[3]))) :
                                   t \in {u \in g.triples : u[1] = s /\ u[2] = p}})
        keyOf(p) == name(p)
    IN  JDict([k \in {"@id"} \cup {keyOf(p) : p \in preds} |->
                 IF k = "@id" THEN JStr(name(s))
                 ELSE LET p == CHOOSE p \in preds : keyOf(p) = k
                      IN  IF compact /\ Len(values(p)) = 1
                          THEN values(p)[1]
                          ELSE JList(values(p))])

\* g.serialize(format="json-ld", auto_compact=compact) read back by
\* json.loads: a list of node objects, or with auto_compact an object under
\* the context made of the graph's own prefixes
SerializeJsonLd(g, compact) ==
    LET nodes == SetToSeq({NodeObject(g, s, compact) :
                               s \in {t[1] : t \in g.triples}})
        context_data == ContextData(g.namespaces)
    IN  IF ~compact THEN JList(nodes)
        ELSE IF Len(nodes) = 1
        THEN JDict(("@context" :> context_data) @@ nodes[1].dict)
        ELSE JDict(("@context" :> context_data) @@ ("@graph" :> JList(nodes)))

ExportOne(file, ctx, compact, as_graph) ==
    WrapWithContext(SerializeJsonLd(ParseTurtle(file), compact),
                    ContextData(ctx), as_graph)

\* the triples a JSON-LD reader gets from the written document: each node
\* is read under the document's context, overridden by a context of its own
ParseJsonLd(doc) ==
    LET prefixes(c) == [p \in DOMAIN c.dict |-> c.dict[p].str]
        outer == prefixes(doc.dict["@context"])
        nodes == IF "@graph" \in DOMAIN doc.dict
                 THEN {doc.dict["@graph"].list[i] :
                           i \in DOMAIN doc.dict["@graph"].list}
                 ELSE IF "@id" \in DOMAIN doc.dict THEN {doc} ELSE {}
        active(n) == IF "@context" \in DOMAIN n.dict
                     THEN prefixes(n.dict["@context"]) @@ outer
                     ELSE outer
        valuesOf(v) == IF IsList(v) THEN {v.list[i] : i \in DOMAIN v.list}
                       ELSE {v}
    IN  UNION {UNION {{<<ExpandIri(n.dict["@id"].str, active(n)),
                        ExpandIri(k, active(n)),
                        ExpandIri(o.dict["@id"].str, active(n))>> :
                           o \in valuesOf(n.dict[k])} :
                      k \in DOMAIN n.dict \ {"@id", "@context"}} :
               n \in nodes}

InitConvert ==
    /\ MintIdle /\ ExportIdle /\ AppIdle /\ KgIdle
    /\ fIn \in [ttl : TurtleFiles, ctx : PrefixMaps,
                compact : BOOLEAN, as_graph : BOOLEAN]
    /\ fOut = <<>>

CallExportOne ==
    /\ fOut = <<>>
    /\ fOut' = <<ExportOne(fIn.ttl, fIn.ctx, fIn.compact, fIn.as_graph)>>
    /\ UNCHANGED <<fIn, exceptFun>>

ConvertNext == CallExportOne

SpecConvert == InitConvert /\ [][ConvertNext]_vars

\* C24: the written JSON-LD document, read under the injected context,
\* gives the triples of the Turtle file, with and without compact.
C24_SameTriplesAsTurtle ==
    fOut # <<>> => ParseJsonLd(fOut[1]) = fIn.ttl.triples

\* the part of C24 that the converter keeps: without compact
C24_SameTriplesExpanded ==
    (fOut # <<>> /\ ~fIn.compact) => ParseJsonLd(fOut[1]) = fIn.ttl.triples

\* ---------------------------------------------------------------------
\* export_jsonld.main: input collection and the batch loop.  A Turtle path
\* is [dir, stem] for <dir>/<stem>.ttl, already resolved; fIn holds the
\* arguments and the files that exist, fOut the state of the run.
\* ---------------------------------------------------------------------

MaxInputs == 2

TtlDirs == {"d1", "d2"}
TtlStems == <<"a", "b">>

TtlPaths == [dir : TtlDirs, stem : {TtlStems[i] : i \in DOMAIN TtlStems}]
NoPath == [dir |-> "", stem |-> ""]

\* sorted(d.glob("*.ttl")) over the files that exist
SortedGlob(dir, existing) ==
    LET all == [i \in DOMAIN TtlStems |-> [dir |-> dir, stem |-> TtlStems[i]]]
        Exists(p) == p \in existing
    IN  SelectSeq(all, Exists)

RECURSIVE DedupPaths(_, _)
DedupPaths(paths, seen) ==
    IF paths = <<>> THEN <<>>
    ELSE IF Head(paths) \in seen THEN DedupPaths(Tail(paths), seen)
    ELSE <<Head(paths)>> \o DedupPaths(Tail(paths), seen \cup {Head(paths)})

\* the list of inputs; an empty list is the ValueError of line 59
IterTtlInputs(ttl, ttl_dir, ttl_list, existing) ==
    DedupPaths((IF ttl # NoPath THEN <<ttl>> ELSE <<>>)
                   \o (IF ttl_dir # "" THEN SortedGlob(ttl_dir, existing) ELSE <<>>)
                   \o ttl_list,
               {})

DefaultOutPath(out_dir, ttl_path) ==
    [dir |-> out_dir, name |-> ttl_path.stem \o ".jsonld"]

\* export_one writes the conversion of ttl_path at out_path
WriteJsonld(files, out_path, ttl_path) == (out_path :> ttl_path) @@ files

BatchArgs ==
    [ttl : {NoPath} \cup TtlPaths, ttl_dir : {""} \cup TtlDirs,
     ttl_list : SeqsUpTo(TtlPaths, MaxInputs),
     out : {"", "o.jsonld"}, out_dir : {"", "out"},
     existing : SUBSET TtlPaths]

InitBatch ==
    /\ MintIdle /\ ExportIdle /\ AppIdle /\ KgIdle
    /\ fIn \in BatchArgs
    /\ fOut = <<>>

\* lines 158-168: the inputs, the --out check, the single-file mode
BatchStart ==
    /\ fOut = <<>>
    /\ LET inputs == IterTtlInputs(fIn.ttl, fIn.ttl_dir, fIn.ttl_list,
                                   fIn.existing)
           run == [pc |-> "loop", inputs |-> inputs, next |-> 1,
                   files |-> <<>>, error |-> ""]
       IN  fOut' = <<IF inputs = <<>> \/ (fIn.out # "" /\ Len(inputs) # 1)
                     THEN [run EXCEPT !.pc = "exited", !.error = "ValueError"]
                     ELSE IF fIn.out # ""
                     THEN IF inputs[1] \in fIn.existing
                          THEN [run EXCEPT
                                   !.pc = "exited",
                                   !.files = WriteJsonld(<<>>,
                                       [dir |-> "", name |-> fIn.out],
                                       inputs[1])]
                          ELSE [run EXCEPT !.pc = "exited",
                                           !.error = "FileNotFoundError"]
                     ELSE run>>
    /\ UNCHANGED <<fIn, exceptFun>>

\* lines 171-182: one turn of the loop
BatchConvert ==
    /\ fOut # <<>> /\ fOut[1].pc = "loop"
    /\ fOut[1].next <= Len(fOut[1].inputs)
    /\ LET ttl_path == fOut[1].inputs[fOut[1].next]
           out_dir == IF fIn.out_dir # "" THEN fIn.out_dir ELSE ttl_path.dir
           out_path == DefaultOutPath(out_dir, ttl_path)
       IN  fOut' = <<IF ttl_path \notin fIn.existing
                     THEN [fOut[1] EXCEPT !.pc = "exited",
                                          !.error = "FileNotFoundError"]
                     ELSE [fOut[1] EXCEPT
                              !.next = @ + 1,
                              !.files = WriteJsonld(@, out_path, ttl_path)]>>
    /\ UNCHANGED <<fIn, exceptFun>>

\* line 184
BatchReturn ==
    /\ fOut # <<>> /\ fOut[1].pc = "loop"
    /\ fOut[1].next > Len(fOut[1].inputs)
    /\ fOut' = <<[fOut[1] EXCEPT !.pc = "exited"]>>
    /\ UNCHANGED <<fIn, exceptFun>>

BatchNext ==
    \/ BatchStart
    \/ BatchConvert
    \/ BatchReturn

SpecBatch == InitBatch /\ [][BatchNext]_vars

BatchExited == fOut # <<>> /\ fOut[1].pc = "exited"

\* the output file that goes with an input in batch mode
OutputOf(p) ==
    DefaultOutPath(IF fIn.out_dir # "" THEN fIn.out_dir ELSE p.dir, p)

\* C25: after a batch run every input that exists has its <stem>.jsonld and
\* that file holds the conversion of this input, whatever the other inputs.
C25_EveryExistingInputConverted ==
    (BatchExited /\ fIn.out = "" /\ fOut[1].error # "ValueError") =>
        \A i \in DOMAIN fOut[1].inputs :
            LET p == fOut[1].inputs[i]
            IN  p \in fIn.existing =>
                    /\ OutputOf(p) \in DOMAIN fOut[1].files
                    /\ fOut[1].files[OutputOf(p)] = p

\* the part that holds: a run that returns, whose inputs have different
\* stems, has converted each of them
C25_DistinctStemsAllPresent ==
    (BatchExited /\ fIn.out = "" /\ fOut[1].error = ""
        /\ \A i, j \in DOMAIN fOut[1].inputs :
               fOut[1].inputs[i].stem = fOut[1].inputs[j].stem => i = j) =>
        \A i \in DOMAIN fOut[1].inputs :
            /\ OutputOf(fOut[1].inputs[i]) \in DOMAIN fOut[1].files
            /\ fOut[1].files[OutputOf(fOut[1].inputs[i])] = fOut[1].inputs[i]

\* ---------------------------------------------------------------------
\* apply_expert_override applied to its own result with the same expert
\* state.
\* ---------------------------------------------------------------------

OverrideResults ==
    {BuildExportResult(Classify(tale_id, "tale one", AppTopK, preds,
                                [c \in {NormalizeAtuCode(x) : x \in PredCodes} |-> a], 0),
                       tale_id, "tale one", AppTopK) :
         tale_id \in TaleIds, preds \in PagePreds, a \in AnchorScores}

OverrideExperts ==
    ExpertStates
    \cup [atu : {<<"7", "0", "7">>, <<" ", "4", "8", "0">>, <<"5", "1", "0", "A">>},
          note : {"", "motif cue"},
          saved_at : {<<>>, <<[sec |-> 1, zone |-> "+00:00"]>>}]

InitTwice ==
    /\ MintIdle /\ ExportIdle /\ AppIdle /\ KgIdle
    /\ fIn \in [result : OverrideResults, expert_state : OverrideExperts]
    /\ fOut = <<>>

\* effective = apply_expert_override(result, e), then once more on effective
CallApplyTwice ==
    /\ fOut = <<>>
    /\ LET once == ApplyExpertOverride(fIn.result, fIn.expert_state)
       IN  fOut' = <<once, ApplyExpertOverride(once, fIn.expert_state)>>
    /\ UNCHANGED <<fIn, exceptFun>>

TwiceNext == CallApplyTwice

SpecTwice == InitTwice /\ [][TwiceNext]_vars

\* C26: for an expert state with a non-empty code, the result of the second
\* application still has model_primary_atu equal to the primary code the
\* model gave in the input result.
C26_SecondOverrideKeepsModelPrimary ==
    (fOut # <<>> /\ Strip(Get(fIn.expert_state, "atu", <<>>)) # <<>>) =>
        fOut[2].meta.model_primary_atu = Get(fIn.result.meta, "primary_atu", NULL)

\* the first application does keep it
C26_FirstOverrideKeepsModelPrimary ==
    fOut # <<>> =>
        fOut[1].meta.model_primary_atu = Get(fIn.result.meta, "primary_atu", NULL)

\* ---------------------------------------------------------------------
\* The classify page after a new classification.
\* ---------------------------------------------------------------------

\* the effective result and its graph carry the model's decision only
ModelDecisionOnly(handed, model_primary) ==
    /\ handed[1].result.meta.final_decision_source = "model"
    /\ handed[1].result.meta.final_atu
           = (IF model_primary = NULL THEN <<>> ELSE model_primary)
    /\ handed[1].result.meta.final_expert_note = ""
    /\ handed[1].result.meta.final_saved_at = <<>>
    /\ HumanReviewNodes(handed[1].graph) = <<>>

NoSavedCode(expert_state) == Get(expert_state, "atu", <<>>) = <<>>

\* C27: a new classification leaves no saved expert code behind, and as long
\* as no expert code is saved the page hands on the model's decision: source
\* "model", final_atu the code of the latest classification (empty if it has
\* none), empty note and saved-at, no HumanReview node, in either mode.
C27_NoStaleExpertDecision ==
    [][/\ aResult' # aResult => NoSavedCode(aExpert')
       /\ (aHanded' # <<>> /\ NoSavedCode(aExpert')) =>
              ModelDecisionOnly(aHanded', aModelPrimary')]_vars

\* a classification with a primary code handed on in "Expert override" mode
\* with no saved decision
C27_ExpertModeWithoutDecision ==
    /\ aHanded # <<>>
    /\ aMode = ModeExpert
    /\ aExpert = <<>>
    /\ aModelPrimary # NULL
    /\ aNow = MaxClock
    /\ aHanded[1].result.meta.final_atu = aModelPrimary

\* ---------------------------------------------------------------------
\* to_jsonld over results with and without the optional parts: source
\* version, typing source, expert decision with and without an agent id,
\* IRIs given in meta or minted.
\* ---------------------------------------------------------------------

MetaOverrides ==
    {a @@ b @@ c @@ d :
        a \in {<<>>,
               [final_decision_source |-> "model"],
               [final_decision_source |-> "expert"],
               [final_decision_source |-> "expert", expert_agent_id |-> "expert_1",
                final_saved_at |-> <<[sec |-> 1, zone |-> "+00:00"]>>]},
        b \in {<<>>, [source_version |-> <<>>]},
        c \in {<<>>, [typing_source |-> NoneAtom]},
        d \in {<<>>, [run_uri |-> NoIri, result_uri |-> NoIri,
                      model_uri |-> NoIri, input_text_uri |-> NoIri]}}

ProvenanceResults ==
    {[r EXCEPT !.meta = over @@ r.meta] : r \in OverrideResults, over \in MetaOverrides}

InitProvenance ==
    /\ MintIdle /\ ExportIdle /\ AppIdle /\ KgIdle
    /\ fIn \in [result : ProvenanceResults, tale_id : {<<>>, <<"T", "1">>}]
    /\ fOut = <<>>

CallToJsonld ==
    /\ fOut = <<>>
    /\ fOut' = <<ToJsonld(fIn.result, fIn.tale_id, 0)>>
    /\ UNCHANGED <<fIn, exceptFun>>

ProvenanceNext == CallToJsonld

SpecProvenance == InitProvenance /\ [][ProvenanceNext]_vars

NodeIds(graph) == {graph[i].id : i \in DOMAIN graph}

\* the entries of prov:used that name entities of the graph itself
OwnUsed(run, meta) ==
    {run.used[i] : i \in DOMAIN run.used}
        \ {Get(meta, "decision_policy_uri", PolicyUri), Get(meta, "labels_uri", LabelsUri)}

\* C28: in the @graph of to_jsonld the Run's used model, input snapshot,
\* dataset snapshot and bibliographic source, its usedModel, generated and
\* forTale, the Result's wasGeneratedBy, hasCandidate and forTale, the
\* snapshot's wasDerivedFrom and the HumanReview's used and wasAttributedTo
\* all name nodes of the same @graph; there is one Run and one Result, the
\* Run generates that Result only and the Result is generated by that Run.
C28_GraphSelfContained ==
    fOut # <<>> =>
        LET graph == fOut[1]
            ids == NodeIds(graph)
            runs == NodesOfType(graph, "rft:ClassificationRun")
            results == NodesOfType(graph, "rft:ClassificationResult")
            snapshots == NodesOfType(graph, "rft:InputTextSnapshot")
            reviews == NodesOfType(graph, "rft:HumanReview")
        IN  /\ Len(runs) = 1 /\ Len(results) = 1 /\ Len(snapshots) = 1
            /\ OwnUsed(runs[1], fIn.result.meta) \subseteq ids
            /\ runs[1].usedModel \in ids
            /\ runs[1].usedModel \in NodeIds(NodesOfType(graph, "rft:Model"))
            /\ runs[1].forTale \in NodeIds(NodesOfType(graph, "rft:Tale"))
            /\ runs[1].generated = <<results[1].id>>
            /\ results[1].wasGeneratedBy = runs[1].id
            /\ results[1].forTale \in NodeIds(NodesOfType(graph, "rft:Tale"))
            /\ \A i \in DOMAIN results[1].hasCandidate :
                   results[1].hasCandidate[i]
                       \in NodeIds(NodesOfType(graph, "rft:ClassificationCandidate"))
            /\ snapshots[1].wasDerivedFrom \in NodeIds(NodesOfType(graph, "rft:InputText"))
            /\ \A i \in DOMAIN reviews :
                   /\ \A j \in DOMAIN reviews[i].used : reviews[i].used[j] \in ids
                   /\ \A j \in DOMAIN reviews[i].wasAttributedTo :
                          reviews[i].wasAttributedTo[j]
                              \in NodeIds(NodesOfType(graph, "prov:Agent"))

\* a graph with every optional node: dataset snapshot, bibliographic source,
\* candidates, and a HumanReview attributed to an agent
C28_AllOptionalNodes ==
    /\ fOut # <<>>
    /\ NodesOfType(fOut[1], "rft:DatasetSnapshot") # <<>>
    /\ NodesOfType(fOut[1], "dcterms:BibliographicResource") # <<>>
    /\ NodesOfType(fOut[1], "rft:ClassificationCandidate") # <<>>
    /\ NodesOfType(fOut[1], "prov:Agent") # <<>>
    /\ Len(NodesOfType(fOut[1], "rft:HumanReview")) = 1
    /\ NodesOfType(fOut[1], "rft:HumanReview")[1].wasAttributedTo # <<>>
    /\ Len(NodesOfType(fOut[1], "rft:ClassificationRun")[1].used) = 6

\* ---------------------------------------------------------------------
\* make_decision over candidate lists whose scores and anchors sit on and
\* beside the thresholds (hundredths; 120 is clamped to 100).
\* ---------------------------------------------------------------------

MaxCandidates == 2

DecisionCandidates ==
    [atu_code : {<<>>, <<"4", "8", "0">>},
     score : {34, 35, 50, 75, 90, 120},
     anchor : {39, 40, 60, 70}]

InitDecision ==
    /\ MintIdle /\ ExportIdle /\ AppIdle /\ KgIdle
    /\ fIn \in [top_candidates : SeqsUpTo(DecisionCandidates, MaxCandidates)]
    /\ fOut = <<>>

CallMakeDecision ==
    /\ fOut = <<>>
    /\ fOut' = <<MakeDecision(fIn.top_candidates)>>
    /\ UNCHANGED <<fIn, exceptFun>>

DecisionNext == CallMakeDecision

SpecDecision == InitDecision /\ [][DecisionNext]_vars

\* the input candidates that have a code, with score and anchor clamped
ClampedInputs ==
    {[atu_code |-> fIn.top_candidates[i].atu_code,
      score |-> Clip01(fIn.top_candidates[i].score),
      anchor |-> Clip01(fIn.top_candidates[i].anchor)] :
         i \in {j \in DOMAIN fIn.top_candidates : fIn.top_candidates[j].atu_code # <<>>}}

\* the documented rules, in their order
DocumentedStatus(score, anchor, delta) ==
    IF score >= 75 /\ anchor >= 60 /\ delta >= 15 THEN "auto_adopt_primary"
    ELSE IF score >= 50 /\ anchor >= 40 THEN "needs_review_A"
    ELSE IF score >= 35 /\ anchor >= 70 THEN "needs_review_B"
    ELSE "weak"

\* C29: the status of a decision is the one the documented rules give for
\* the top-1 candidate and delta; the primary is a candidate (with a code) of
\* maximal clamped score; delta is the top-1 score minus the top-2 score, and
\* 0 with fewer than two candidates.
C29_StatusByDocumentedRules ==
    fOut # <<>> =>
        LET d == fOut[1]
            cands == d.candidates
        IN  /\ {cands[i] : i \in DOMAIN cands} = ClampedInputs
            /\ cands = <<>> =>
                   d.tale_status = "weak" /\ d.primary_atu = NULL /\ d.delta_top12 = 0
            /\ cands # <<>> =>
                   /\ d.primary_atu = cands[1].atu_code
                   /\ \A c \in ClampedInputs : cands[1].score >= c.score
                   /\ d.delta_top12 = (IF Len(cands) < 2 THEN 0
                                       ELSE cands[1].score - cands[2].score)
                   /\ d.tale_status
                          = DocumentedStatus(cands[1].score, cands[1].anchor, d.delta_top12)

\* a top-1 that passes score and anchor of the first rule but not its delta
C29_CloseSecondBlocksAutoAdopt ==
    /\ fOut # <<>>
    /\ Len(fOut[1].candidates) = 2
    /\ fOut[1].candidates[1].score >= 75
    /\ fOut[1].candidates[1].anchor >= 60
    /\ fOut[1].delta_top12 < 15
    /\ fOut[1].tale_status = "needs_review_A"

\* ---------------------------------------------------------------------
\* The quality log run on the graph build_graph makes from a table.
\* ---------------------------------------------------------------------

InitCoverage ==
    /\ MintIdle /\ ExportIdle /\ AppIdle /\ KgIdle
    /\ fIn \in [table : {t \in Tables : t.columns = AllColumns},
                add_dataset_links : BOOLEAN]
    /\ fOut = <<>>

\* build_kg.main writes the graph, kg_quality_log.main reads it
CallBuildThenLog ==
    /\ fOut = <<>>
    /\ LET graph == BuildGraph(fIn.table, fIn.add_dataset_links).graph
       IN  fOut' = <<[graph |-> graph, metrics |-> Metrics(graph)]>>
    /\ UNCHANGED <<fIn, exceptFun>>

CoverageNext == CallBuildThenLog

SpecCoverage == InitCoverage /\ [][CoverageNext]_vars

\* the tales that dcterms:isPartOf links to a volume node
TalesInVolume(g) ==
    {t \in TalesOf(g) :
        \E v \in ObjectsIris(g, t, "dcterms:isPartOf") : v.kind = "volume"}

\* C30: coverage.tales_with_isPartOf_volume counts exactly the tales linked
\* by dcterms:isPartOf to a volume; a tale without volume that is part of the
\* dataset only is not counted.
C30_CountsTalesInVolumes ==
    fOut # <<>> =>
        fOut[1].metrics["coverage.tales_with_isPartOf_volume"].count
            = Cardinality(TalesInVolume(fOut[1].graph))

\* the part that holds: without dataset links the count is the tales in volumes
C30_CountsWithoutDatasetLinks ==
    (fOut # <<>> /\ ~fIn.add_dataset_links) =>
        fOut[1].metrics["coverage.tales_with_isPartOf_volume"].count
            = Cardinality(TalesInVolume(fOut[1].graph))

====
